---------------------------- MODULE Spec2Model ----------------------------
(***************************************************************************)
(* Model of the LDPC encoder of lib/src/phy/fec/ldpc/ldpc_encoder.c: one   *)
(* encoder instance (srslte_ldpc_encoder_t), the heap objects it owns (the *)
(* compact parity-check table and the scratch buffer), the caller's output *)
(* buffer, and the public operations init / encode / encode_rm / free.     *)
(* Further specifications in this module: SpecPair (two encoder instances  *)
(* used by two threads), SpecPolar (the hard-decision helpers of           *)
(* polar_decoder_vector.c) and SpecPdcp (the bearer manager of pdcp.cc).   *)
(***************************************************************************)
EXTENDS Integers, Sequences, FiniteSets, TLC

(***************************************************************************)
(* Program constants.                                                      *)
(***************************************************************************)
BG1 == 0
BG2 == 1
BG1Nfull == 68
BG1M == 46
BG2Nfull == 52
BG2M == 42
VOID_LIFTSIZE == 255
MAX_LIFTSIZE == 384
SRSLTE_AVX2_B_SIZE == 32
SRSLTE_LDPC_ENCODER_C == 0
SRSLTE_LDPC_ENCODER_AVX2 == 1

\* Integer widths of the instance's fields and of encode's local n_layers.
\* The uint32 arguments of encode are first compared and clamped, so none
\* of its expressions leaves the range of the model's integers.
UINT8 == 256
UINT16 == 65536

(***************************************************************************)
(* Bounds of the model.                                                    *)
(***************************************************************************)
\* Number of distinct input blocks the caller may pass (ids 1..NumInputs).
NumInputs == 2

\* input_length is bgK*ls + r for r in SlackValues: one byte short, exact, one
\* byte long, and (InputLengths) the lengths around the next multiple of bgK.
SlackValues == {-1, 0, 1}

\* Lifting sizes passed to init: 0 and 17 are outside the standardized set;
\* 2..15 cover the eight size classes below the register block size; 36, 52
\* and 56 lie above it and reach the four high-rate kernels.
LsValues == {0, 2, 3, 5, 7, 9, 11, 13, 15, 17, 36, 52, 56}
\* Base graph arguments: BG1, BG2 and one value outside the enumeration.
BgValues == {BG1, BG2, 2}
\* Encoder type arguments: portable, accelerated, one unknown value.
TypeValues == {SRSLTE_LDPC_ENCODER_C, SRSLTE_LDPC_ENCODER_AVX2, 2}

\* A byte of the output buffer that the call has not written.
STALE == -1

VARIABLES
  q,          \* the srslte_ldpc_encoder_t instance
  heap,       \* state of the heap objects behind q.pcm and q.ptr
  scratch,    \* contents of the scratch buffer *q.ptr
  output,     \* the writes the last call made into the caller's output buffer
  init_call,  \* the init call made on the instance: arguments and result
  call,       \* the last public call: operation, arguments, result, locals
  life,       \* where the caller is in the instance's lifecycle
  LV_HAVE_AVX2 \* build flag: the accelerated tiers are compiled in

vars == <<q, heap, scratch, output, init_call, call, life, LV_HAVE_AVX2>>

\* Two encoder instances used by two threads (the second specification).
VARIABLES
  insts,      \* each instance: its srslte_ldpc_encoder_t and what it points to
  mem,        \* the heap: the object at each address
  thr         \* each thread: its position in encode, arguments and locals

pairVars == <<insts, mem, thr>>

\* The hard-decision helpers of polar_decoder_vector.c.
VARIABLES
  vec         \* the last vector call: routine, input x, output z

polarVars == <<vec>>

\* The bearer manager of upper/pdcp.cc.
VARIABLES
  pdcp_array,         \* pdcp_map_t: lcid -> unique_ptr<pdcp_entity_base>
  valid_lcids_cached, \* the set read by is_lcid_enabled
  rrc_nr,             \* whether init was given an rrc_nr parent
  pdcp_call,          \* the last call: operation, arguments and outcome
  cache_mutex,        \* the thread that holds cache_mutex, or "free"
  wr,                 \* the stack thread: position in its call and locals
  rd                  \* the thread that calls is_lcid_enabled

pdcpVars ==
  <<pdcp_array, valid_lcids_cached, rrc_nr, pdcp_call, cache_mutex, wr, rd>>

\* Each specification runs one of the four parts of the program; the state
\* of the parts it does not run is empty and stays so.
LdpcIdle ==
  /\ q = <<>> /\ heap = <<>> /\ scratch = <<>> /\ output = <<>>
  /\ init_call = <<>> /\ call = <<>> /\ life = "none"
PairIdle == insts = <<>> /\ mem = <<>> /\ thr = <<>>
PolarIdle == vec = <<>>
PdcpIdle ==
  /\ pdcp_array = <<>> /\ valid_lcids_cached = {} /\ rrc_nr = FALSE
  /\ pdcp_call = <<>>
  /\ cache_mutex = "free" /\ wr = <<>> /\ rd = <<>>

(***************************************************************************)
(* The instance and the heap.                                              *)
(***************************************************************************)
\* bzero(q, sizeof(srslte_ldpc_encoder_t))
ZeroInstance ==
  [ptr |-> "NULL", bg |-> 0, ls |-> 0, bgN |-> 0, liftN |-> 0, bgM |-> 0,
   liftM |-> 0, bgK |-> 0, liftK |-> 0, pcm |-> "NULL", free |-> "NULL",
   encode |-> "NULL", encode_high_rate |-> "NULL",
   encode_high_rate_avx2 |-> "NULL"]

\* Each heap object is "none" (never allocated), "live" or "freed"; the
\* counters record how often the current object was handed to a release
\* routine.
EmptyHeap == [pcm |-> "none", ptr |-> "none", pcmFrees |-> 0, ptrFrees |-> 0]

\* The scratch buffer's content is determined by the input block it was last
\* built from (0: no defined content, before the first encode).
NoScratch == [in |-> 0]

\* The record of the init call: its arguments (type, bg, ls), the outcomes
\* of the table allocation, the table construction and the scratch
\* allocation as the environment decides them, and the result code.
NoInitCall ==
  [called |-> FALSE, type |-> 0, bg |-> 0, ls |-> 0, pcmOk |-> FALSE,
   tableOk |-> FALSE, ptrOk |-> FALSE, ret |-> 0]

\* The record of the last public call: the operation, the lifecycle state
\* it was made in, its result code, the arguments of encode (input block,
\* input_length, requested length) and the final values of encode's locals
\* cdwd_rm_length and n_layers.
NoCall ==
  [op |-> "none", from |-> "zeroed", ret |-> 0,
   in |-> 0, input_length |-> 0, requested |-> 0,
   cdwd_rm_length |-> 0, n_layers |-> 0]

(***************************************************************************)
(* Lifting-size classifier (base_graph.c, described in section 4.1 of the  *)
(* specification): ls = a * 2^j with a in {2,3,5,7,9,11,13,15}, ls <= 384. *)
(***************************************************************************)
LiftFamilies == <<2, 3, 5, 7, 9, 11, 13, 15>>

InFamily(ls, a) == \E j \in 0..7 : ls = a * (2 ^ j)

get_ls_index(ls) ==
  IF ls >= 2 /\ ls <= MAX_LIFTSIZE /\ \E i \in 1..8 : InFamily(ls, LiftFamilies[i])
    THEN (CHOOSE i \in 1..8 : InFamily(ls, LiftFamilies[i])) - 1
    ELSE VOID_LIFTSIZE

\* create_compact_pcm(q->pcm, NULL, bg, ls): building the table is the work
\* of an external collaborator; whether it succeeds is the environment's
\* choice (tableOk).
create_compact_pcm(tableOk) == IF tableOk THEN 0 ELSE -1

(***************************************************************************)
(* Heap operations.                                                        *)
(***************************************************************************)
\* srslte_vec_u16_malloc succeeded: a new live table.
AllocPcm(h) == [h EXCEPT !.pcm = "live", !.pcmFrees = 0]
\* srslte_vec_u8_malloc / create_ldpc_enc_avx2 succeeded: a new live scratch.
AllocPtr(h) == [h EXCEPT !.ptr = "live", !.ptrFrees = 0]
\* free(q->pcm): the pointer is handed to free() whatever the object's state.
ReleasePcm(h) == [h EXCEPT !.pcm = "freed", !.pcmFrees = @ + 1]
\* free(q->ptr) / delete_ldpc_enc_avx2(q->ptr)
ReleasePtr(h) == [h EXCEPT !.ptr = "freed", !.ptrFrees = @ + 1]
\* Some object has been released twice: undefined behaviour.
DoubleFree(h) == h.pcmFrees > 1 \/ h.ptrFrees > 1

\* Mutant of free_enc_c: the scratch buffer is not released.
free_enc_c_table_only(q0, h0) ==
  IF q0.pcm # "NULL" THEN ReleasePcm(h0) ELSE h0

free_enc_c(q0, h0) ==
  LET h1 == IF q0.pcm # "NULL" THEN ReleasePcm(h0) ELSE h0
  IN  IF q0.ptr # "NULL" THEN ReleasePtr(h1) ELSE h1

free_enc_avx2(q0, h0) ==
  LET h1 == IF q0.pcm # "NULL" THEN ReleasePcm(h0) ELSE h0
  IN  IF q0.ptr # "NULL" THEN ReleasePtr(h1) ELSE h1

free_enc_avx2long(q0, h0) ==
  LET h1 == IF q0.pcm # "NULL" THEN ReleasePcm(h0) ELSE h0
  IN  IF q0.ptr # "NULL" THEN ReleasePtr(h1) ELSE h1

\* q->free(q): the call through the instance's free binding.
CallFree(q0, h0) ==
  CASE q0.free = "free_enc_c" -> free_enc_c(q0, h0)
    [] q0.free = "free_enc_avx2" -> free_enc_avx2(q0, h0)
    [] q0.free = "free_enc_avx2long" -> free_enc_avx2long(q0, h0)

(***************************************************************************)
(* Strategy selector: the high-rate kernel chosen by each tier's init.     *)
(* "NULL" stands for the branch that reports an invalid lifting size       *)
(* and/or base graph.                                                      *)
(***************************************************************************)
\* Mutant of select_high_rate_c: BG2 tests only one of its two special
\* classes.
select_high_rate_c_one_special(bg, ls_index) ==
  IF bg = BG1 /\ ls_index # 6 THEN "encode_high_rate_case1"
  ELSE IF bg = BG1 /\ ls_index = 6 THEN "encode_high_rate_case2"
  ELSE IF bg = BG2 /\ ls_index # 3 THEN "encode_high_rate_case3"
  ELSE IF bg = BG2 /\ ls_index = 3 THEN "encode_high_rate_case4"
  ELSE "NULL"

select_high_rate_c(bg, ls_index) ==
  IF bg = BG1 /\ ls_index # 6 THEN "encode_high_rate_case1"
  ELSE IF bg = BG1 /\ ls_index = 6 THEN "encode_high_rate_case2"
  ELSE IF bg = BG2 /\ ls_index # 3 /\ ls_index # 7 THEN "encode_high_rate_case3"
  ELSE IF bg = BG2 /\ (ls_index = 3 \/ ls_index = 7) THEN "encode_high_rate_case4"
  ELSE "NULL"

select_high_rate_avx2(bg, ls_index) ==
  IF bg = BG1 /\ ls_index # 6 THEN "encode_high_rate_case1_avx2"
  ELSE IF bg = BG1 /\ ls_index = 6 THEN "encode_high_rate_case2_avx2"
  ELSE IF bg = BG2 /\ ls_index # 3 /\ ls_index # 7 THEN "encode_high_rate_case3_avx2"
  ELSE IF bg = BG2 /\ (ls_index = 3 \/ ls_index = 7) THEN "encode_high_rate_case4_avx2"
  ELSE "NULL"

select_high_rate_avx2long(bg, ls_index) ==
  IF bg = BG1 /\ ls_index # 6 THEN "encode_high_rate_case1_avx2long"
  ELSE IF bg = BG1 /\ ls_index = 6 THEN "encode_high_rate_case2_avx2long"
  ELSE IF bg = BG2 /\ ls_index # 3 /\ ls_index # 7 THEN "encode_high_rate_case3_avx2long"
  ELSE IF bg = BG2 /\ (ls_index = 3 \/ ls_index = 7) THEN "encode_high_rate_case4_avx2long"
  ELSE "NULL"

(***************************************************************************)
(* Tier initializers.  Each returns the instance, the heap and the result  *)
(* code.  ptrOk is the outcome of the scratch-buffer allocation.           *)
(***************************************************************************)
\* Mutant of init_c: the encode routine is bound before the scratch
\* allocation is checked.
init_c_binds_encode_early(q0, h0, ptrOk) ==
  LET ls_index == get_ls_index(q0.ls)
      kernel == select_high_rate_c(q0.bg, ls_index)
      q1 == [q0 EXCEPT !.encode_high_rate = kernel, !.free = "free_enc_c",
                       !.encode = "encode_c",
                       !.ptr = IF ptrOk THEN "PTR" ELSE "NULL"]
      h1 == IF ptrOk THEN AllocPtr(h0) ELSE h0
  IN  IF ls_index = VOID_LIFTSIZE THEN [q |-> q0, heap |-> h0, ret |-> -1]
      ELSE IF kernel = "NULL" THEN [q |-> q0, heap |-> h0, ret |-> -1]
      ELSE IF ~ptrOk THEN [q |-> q1, heap |-> free_enc_c(q1, h1), ret |-> -1]
      ELSE [q |-> q1, heap |-> h1, ret |-> 0]

init_c(q0, h0, ptrOk) ==
  LET ls_index == get_ls_index(q0.ls)
      kernel == select_high_rate_c(q0.bg, ls_index)
      q1 == [q0 EXCEPT !.encode_high_rate = kernel, !.free = "free_enc_c",
                       !.ptr = IF ptrOk THEN "PTR" ELSE "NULL"]
      h1 == IF ptrOk THEN AllocPtr(h0) ELSE h0
  IN  IF ls_index = VOID_LIFTSIZE THEN [q |-> q0, heap |-> h0, ret |-> -1]
      ELSE IF kernel = "NULL" THEN [q |-> q0, heap |-> h0, ret |-> -1]
      ELSE IF ~ptrOk THEN [q |-> q1, heap |-> free_enc_c(q1, h1), ret |-> -1]
      ELSE [q |-> [q1 EXCEPT !.encode = "encode_c"], heap |-> h1, ret |-> 0]

init_avx2(q0, h0, ptrOk) ==
  LET ls_index == get_ls_index(q0.ls)
      kernel == select_high_rate_avx2(q0.bg, ls_index)
      q1 == [q0 EXCEPT !.encode_high_rate_avx2 = kernel, !.free = "free_enc_avx2",
                       !.ptr = IF ptrOk THEN "PTR" ELSE "NULL"]
      h1 == IF ptrOk THEN AllocPtr(h0) ELSE h0
  IN  IF ls_index = VOID_LIFTSIZE THEN [q |-> q0, heap |-> h0, ret |-> -1]
      ELSE IF kernel = "NULL" THEN [q |-> q0, heap |-> h0, ret |-> -1]
      ELSE IF ~ptrOk THEN [q |-> q1, heap |-> free_enc_avx2(q1, h1), ret |-> -1]
      ELSE [q |-> [q1 EXCEPT !.encode = "encode_avx2"], heap |-> h1, ret |-> 0]

init_avx2long(q0, h0, ptrOk) ==
  LET ls_index == get_ls_index(q0.ls)
      kernel == select_high_rate_avx2long(q0.bg, ls_index)
      q1 == [q0 EXCEPT !.encode_high_rate_avx2 = kernel,
                       !.free = "free_enc_avx2long",
                       !.ptr = IF ptrOk THEN "PTR" ELSE "NULL"]
      h1 == IF ptrOk THEN AllocPtr(h0) ELSE h0
  IN  IF ls_index = VOID_LIFTSIZE THEN [q |-> q0, heap |-> h0, ret |-> -1]
      ELSE IF kernel = "NULL" THEN [q |-> q0, heap |-> h0, ret |-> -1]
      ELSE IF ~ptrOk THEN [q |-> q1, heap |-> free_enc_avx2long(q1, h1), ret |-> -1]
      ELSE [q |-> [q1 EXCEPT !.encode = "encode_avx2long"], heap |-> h1, ret |-> 0]

\* Mutant of SetDimensions: liftM is computed from bgN.
SetDimensions_liftM_from_bgN(q0, bg, ls) ==
  LET bgN == IF bg = BG1 THEN BG1Nfull ELSE BG2Nfull
      bgM == IF bg = BG1 THEN BG1M ELSE BG2M
      bgK == (bgN - bgM) % UINT8
  IN  [q0 EXCEPT !.bgN = bgN, !.bgM = bgM, !.bg = bg, !.bgK = bgK,
                 !.ls = ls, !.liftK = (ls * bgK) % UINT16,
                 !.liftM = (ls * bgN) % UINT16, !.liftN = (ls * bgN) % UINT16]

\* The dimensions written by srslte_ldpc_encoder_init before any allocation.
SetDimensions(q0, bg, ls) ==
  LET bgN == IF bg = BG1 THEN BG1Nfull ELSE BG2Nfull
      bgM == IF bg = BG1 THEN BG1M ELSE BG2M
      bgK == (bgN - bgM) % UINT8
  IN  [q0 EXCEPT !.bgN = bgN, !.bgM = bgM, !.bg = bg, !.bgK = bgK,
                 !.ls = ls, !.liftK = (ls * bgK) % UINT16,
                 !.liftM = (ls * bgM) % UINT16, !.liftN = (ls * bgN) % UINT16]

\* Mutant of InitTier: the accelerated preference always takes the initializer
\* of the small-lifting-size tier.
InitTier_always_small(q0, h0, type, ptrOk, haveAvx2) ==
  IF type = SRSLTE_LDPC_ENCODER_C THEN init_c(q0, h0, ptrOk)
  ELSE IF haveAvx2 /\ type = SRSLTE_LDPC_ENCODER_AVX2
    THEN init_avx2(q0, h0, ptrOk)
  ELSE [q |-> q0, heap |-> h0, ret |-> -1]

\* The switch (type) at the end of srslte_ldpc_encoder_init.
InitTier(q0, h0, type, ptrOk, haveAvx2) ==
  IF type = SRSLTE_LDPC_ENCODER_C THEN init_c(q0, h0, ptrOk)
  ELSE IF haveAvx2 /\ type = SRSLTE_LDPC_ENCODER_AVX2
    THEN IF q0.ls <= SRSLTE_AVX2_B_SIZE THEN init_avx2(q0, h0, ptrOk)
         ELSE init_avx2long(q0, h0, ptrOk)
  ELSE [q |-> q0, heap |-> h0, ret |-> -1]

srslte_ldpc_encoder_init(q0, h0, type, bg, ls, pcmOk, tableOk, ptrOk, haveAvx2) ==
  LET q1 == SetDimensions(q0, bg, ls)
      q2 == [q1 EXCEPT !.pcm = IF pcmOk THEN "PCM" ELSE "NULL"]
      h2 == IF pcmOk THEN AllocPcm(h0) ELSE h0
  IN  IF bg \notin {BG1, BG2} THEN [q |-> q0, heap |-> h0, ret |-> -1]
      ELSE IF ~pcmOk THEN [q |-> q2, heap |-> h2, ret |-> -1]
      ELSE IF create_compact_pcm(tableOk) # 0 THEN [q |-> q2, heap |-> h2, ret |-> -1]
      ELSE InitTier(q2, h2, type, ptrOk, haveAvx2)

\* srslte_ldpc_encoder_free up to (not including) the bzero: the heap after
\* the call through q->free, if any.
srslte_ldpc_encoder_free(q0, h0) ==
  IF q0.free # "NULL" THEN CallFree(q0, h0) ELSE h0

(***************************************************************************)
(* Buffers.  Input and output are one-bit-per-byte arrays, indexed from 0  *)
(* as in the C code.  The output buffer of a call is kept as the sequence  *)
(* of range writes the call made into it: a write covers the bytes         *)
(* [lo, hi) and says where each byte's value comes from.                   *)
(***************************************************************************)
Inputs == 1..NumInputs

\* Byte k of input block id: block 1 is all-zero, a block id > 1 is a bit
\* pattern without a period.
InputByte(id, k) == IF id = 1 THEN 0 ELSE ((k * k) \div (id + 5)) % 2

\* Byte j of parity block-column `layer` for input block id.  The shift
\* table is an external resource, so a parity bit is kept as the term that
\* names it; the all-zero input encodes to all-zero parity (section 8).
ParityByte(id, layer, j) ==
  IF id = 1 THEN 0 ELSE 2 + (id * UINT8 + layer) * UINT16 + j

\* The value a write w stores at byte k of the output.
\*   "input":    output[k] = input[skip + k]
\*   "parity":   output[k] = bit k % ls of parity block-column k / ls + 2 - bgK
\*   "codeword": output[k] = byte 2 * ls + k of the scratch codeword
\*               (systematic block-columns, then parity block-columns)
WrittenByte(w, k) ==
  LET node == k \div w.ls + 2
      j == k % w.ls
  IN  CASE w.src = "input" -> InputByte(w.id, w.skip + k)
        [] w.src = "parity" -> ParityByte(w.id, node - w.bgK, j)
        [] w.src = "codeword" ->
             IF node < w.bgK THEN InputByte(w.id, node * w.ls + j)
             ELSE ParityByte(w.id, node - w.bgK, j)

\* A write of the bytes [lo, hi); an empty range writes nothing.
Write(out, lo, hi, src, id, skip, q0) ==
  IF hi <= lo THEN out
  ELSE Append(out, [lo |-> lo, hi |-> hi, src |-> src, id |-> id,
                    skip |-> skip, ls |-> q0.ls, bgK |-> q0.bgK])

\* Byte k of an output buffer: the value of the last write that covers it,
\* STALE when the call wrote no such byte.
OutByte(out, k) ==
  LET covering == {i \in 1..Len(out) : out[i].lo <= k /\ k < out[i].hi}
  IN  IF covering = {} THEN STALE
      ELSE WrittenByte(out[CHOOSE i \in covering : \A i2 \in covering : i2 <= i], k)

\* The number of leading bytes of the buffer the call wrote.
WrittenLength(out) ==
  IF out = <<>> THEN 0
  ELSE LET his == {out[i].hi : i \in 1..Len(out)}
       IN  CHOOSE h \in his : \A h2 \in his : h2 <= h

(***************************************************************************)
(* Kernels of the portable tier (ldpc_enc_c.c, sections 4.3 to 4.5 of the  *)
(* specification).                                                         *)
(***************************************************************************)
\* preprocess_systematic_bits(q, input): the scratch buffer is rebuilt from
\* the systematic input.
preprocess_systematic_bits(q0, id) == [in |-> id]

\* q->encode_high_rate(q, output): the first 4 parity block-columns, written
\* after the systematic region of the output.
encode_high_rate(q0, scr, out) ==
  Write(out, (q0.bgK - 2) * q0.ls, (q0.bgK + 2) * q0.ls, "parity", scr.in, 0, q0)

\* encode_ext_region(q, output, n_layers): parity block-columns 4 to
\* n_layers - 1, in increasing order.
encode_ext_region(q0, scr, out, n_layers) ==
  Write(out, (q0.bgK + 2) * q0.ls, (q0.bgK - 2 + n_layers) * q0.ls, "parity",
        scr.in, 0, q0)

(***************************************************************************)
(* Kernels of the accelerated tiers (ldpc_enc_avx2.c, ldpc_enc_avx2long.c):*)
(* the scratch buffer holds the whole codeword.                            *)
(***************************************************************************)
\* load_avx2 / load_avx2long(q->ptr, input, bgK, bgN, ls)
load_avx2(q0, id) == [in |-> id]

\* q->encode_high_rate_avx2(q)
encode_high_rate_avx2(q0, scr) == scr

\* encode_ext_region_avx2 / _avx2long(q, n_layers)
encode_ext_region_avx2(q0, scr, n_layers) == scr

\* return_codeword_avx2 / _avx2long(q->ptr, output, bgNp, ls): block-columns
\* 2 .. bgNp - 1 of the scratch codeword are copied to the output.
return_codeword_avx2(q0, scr, out, bgNp, ls) ==
  Write(out, 0, (bgNp - 2) * ls, "codeword", scr.in, 0, q0)

(***************************************************************************)
(* encode_c, encode_avx2, encode_avx2long.                                 *)
(***************************************************************************)
\* The dimension check of each routine (uint32 division).
dimension_ok_c(q0, input_length) == input_length \div q0.bgK = q0.ls
dimension_ok_avx2(q0, input_length) == input_length \div q0.bgK = q0.ls
dimension_ok_avx2long(q0, input_length) == input_length \div q0.bgK = q0.ls

\* The clamp, the floor and the rounding of cdwd_rm_length in each routine.
\* Mutant of rm_length_c: the rounding to a multiple of ls is left out.
rm_length_c_no_rounding(q0, cdwd_rm_length) ==
  LET c1 == IF cdwd_rm_length > q0.liftN - 2 * q0.ls
              THEN q0.liftN - 2 * q0.ls ELSE cdwd_rm_length
  IN  IF c1 < (q0.bgK + 2) * q0.ls THEN (q0.bgK + 2) * q0.ls ELSE c1

rm_length_c(q0, cdwd_rm_length) ==
  LET c1 == IF cdwd_rm_length > q0.liftN - 2 * q0.ls
              THEN q0.liftN - 2 * q0.ls ELSE cdwd_rm_length
      c2 == IF c1 < (q0.bgK + 2) * q0.ls
              THEN (q0.bgK + 2) * q0.ls ELSE c1
  IN  IF c2 % q0.ls # 0 THEN (c2 \div q0.ls + 1) * q0.ls ELSE c2

\* Mutant of rm_length_avx2: the floor (bgK+2)*ls is not applied.
rm_length_avx2_no_floor(q0, cdwd_rm_length) ==
  LET c1 == IF cdwd_rm_length > q0.liftN - 2 * q0.ls
              THEN q0.liftN - 2 * q0.ls ELSE cdwd_rm_length
  IN  IF c1 % q0.ls # 0 THEN (c1 \div q0.ls + 1) * q0.ls ELSE c1

rm_length_avx2(q0, cdwd_rm_length) ==
  LET c1 == IF cdwd_rm_length > q0.liftN - 2 * q0.ls
              THEN q0.liftN - 2 * q0.ls ELSE cdwd_rm_length
      c2 == IF c1 < (q0.bgK + 2) * q0.ls
              THEN (q0.bgK + 2) * q0.ls ELSE c1
  IN  IF c2 % q0.ls # 0 THEN (c2 \div q0.ls + 1) * q0.ls ELSE c2

\* Mutant of rm_length_avx2long: a length that is not a multiple of ls is
\* rounded down instead of up.
rm_length_avx2long_round_down(q0, cdwd_rm_length) ==
  LET c1 == IF cdwd_rm_length > q0.liftN - 2 * q0.ls
              THEN q0.liftN - 2 * q0.ls ELSE cdwd_rm_length
      c2 == IF c1 < (q0.bgK + 2) * q0.ls THEN (q0.bgK + 2) * q0.ls ELSE c1
  IN  IF c2 % q0.ls # 0 THEN (c2 \div q0.ls) * q0.ls ELSE c2

rm_length_avx2long(q0, cdwd_rm_length) ==
  LET c1 == IF cdwd_rm_length > q0.liftN - 2 * q0.ls
              THEN q0.liftN - 2 * q0.ls ELSE cdwd_rm_length
      c2 == IF c1 < (q0.bgK + 2) * q0.ls
              THEN (q0.bgK + 2) * q0.ls ELSE c1
  IN  IF c2 % q0.ls # 0 THEN (c2 \div q0.ls + 1) * q0.ls ELSE c2

\* uint8_t n_layers = cdwd_rm_length / q->ls - q->bgK + 2
\* Mutant of n_layers_c: the two punctured block-columns are not counted.
n_layers_c_no_puncturing(q0, cdwd) == (cdwd \div q0.ls - q0.bgK) % UINT8
\* Mutant of n_layers_avx2: one layer too many.
n_layers_avx2_one_more(q0, cdwd) == (cdwd \div q0.ls - q0.bgK + 3) % UINT8
n_layers_c(q0, cdwd) == (cdwd \div q0.ls - q0.bgK + 2) % UINT8
n_layers_avx2(q0, cdwd) == (cdwd \div q0.ls - q0.bgK + 2) % UINT8
n_layers_avx2long(q0, cdwd) == (cdwd \div q0.ls - q0.bgK + 2) % UINT8

\* The loop that copies the systematic bits in encode_c.
\* Mutant of copy_systematic: the copy starts at the first input byte.
copy_systematic_no_skip(q0, id, out) ==
  Write(out, 0, (q0.bgK - 2) * q0.ls, "input", id, 0, q0)

copy_systematic(q0, id, out) ==
  LET skip_in == 2 * q0.ls
  IN  Write(out, 0, (q0.bgK - 2) * q0.ls, "input", id, skip_in, q0)

\* A call that fails the dimension check.
Rejected(scr, out) ==
  [ret |-> -1, output |-> out, scratch |-> scr, cdwd_rm_length |-> 0,
   n_layers |-> 0]

\* Mutant of encode_c: the systematic bits are copied before the dimension
\* check.
encode_c_copies_first(q0, scr, id, out, input_length, cdwd_rm_length) ==
  LET out1 == copy_systematic(q0, id, out)
  IN  IF ~dimension_ok_c(q0, input_length) THEN Rejected(scr, out1)
      ELSE LET cdwd == rm_length_c(q0, cdwd_rm_length)
               scr1 == preprocess_systematic_bits(q0, id)
               out2 == encode_high_rate(q0, scr1, out1)
               n_layers == n_layers_c(q0, cdwd)
           IN  [ret |-> 0, output |-> encode_ext_region(q0, scr1, out2, n_layers),
                scratch |-> scr1, cdwd_rm_length |-> cdwd, n_layers |-> n_layers]

encode_c(q0, scr, id, out, input_length, cdwd_rm_length) ==
  IF ~dimension_ok_c(q0, input_length) THEN Rejected(scr, out)
  ELSE LET cdwd == rm_length_c(q0, cdwd_rm_length)
           out1 == copy_systematic(q0, id, out)
           scr1 == preprocess_systematic_bits(q0, id)
           out2 == encode_high_rate(q0, scr1, out1)
           n_layers == n_layers_c(q0, cdwd)
       IN  [ret |-> 0, output |-> encode_ext_region(q0, scr1, out2, n_layers),
            scratch |-> scr1, cdwd_rm_length |-> cdwd, n_layers |-> n_layers]

encode_avx2(q0, scr, id, out, input_length, cdwd_rm_length) ==
  IF ~dimension_ok_avx2(q0, input_length) THEN Rejected(scr, out)
  ELSE LET cdwd == rm_length_avx2(q0, cdwd_rm_length)
           scr1 == encode_high_rate_avx2(q0, load_avx2(q0, id))
           n_layers == n_layers_avx2(q0, cdwd)
           scr2 == encode_ext_region_avx2(q0, scr1, n_layers)
       IN  [ret |-> 0,
            output |-> return_codeword_avx2(q0, scr2, out,
                                            (n_layers + q0.bgK) % UINT8, q0.ls),
            scratch |-> scr2, cdwd_rm_length |-> cdwd, n_layers |-> n_layers]

encode_avx2long(q0, scr, id, out, input_length, cdwd_rm_length) ==
  IF ~dimension_ok_avx2long(q0, input_length) THEN Rejected(scr, out)
  ELSE LET cdwd == rm_length_avx2long(q0, cdwd_rm_length)
           scr1 == encode_high_rate_avx2(q0, load_avx2(q0, id))
           n_layers == n_layers_avx2long(q0, cdwd)
           scr2 == encode_ext_region_avx2(q0, scr1, n_layers)
       IN  [ret |-> 0,
            output |-> return_codeword_avx2(q0, scr2, out,
                                            (n_layers + q0.bgK) % UINT8, q0.ls),
            scratch |-> scr2, cdwd_rm_length |-> cdwd, n_layers |-> n_layers]

\* q->encode(q, input, output, input_length, cdwd_rm_length)
CallEncode(q0, scr, id, out, input_length, cdwd_rm_length) ==
  CASE q0.encode = "encode_c" ->
         encode_c(q0, scr, id, out, input_length, cdwd_rm_length)
    [] q0.encode = "encode_avx2" ->
         encode_avx2(q0, scr, id, out, input_length, cdwd_rm_length)
    [] q0.encode = "encode_avx2long" ->
         encode_avx2long(q0, scr, id, out, input_length, cdwd_rm_length)

srslte_ldpc_encoder_encode(q0, scr, id, out, input_length) ==
  CallEncode(q0, scr, id, out, input_length, q0.liftN - 2 * q0.ls)

srslte_ldpc_encoder_encode_rm(q0, scr, id, out, input_length, cdwd_rm_length) ==
  CallEncode(q0, scr, id, out, input_length, cdwd_rm_length)

(***************************************************************************)
(* The arguments the caller passes.                                        *)
(***************************************************************************)
InputLengths(q0) ==
  {q0.bgK * q0.ls + q0.bgK - 1, q0.bgK * q0.ls + q0.bgK}
    \cup {q0.bgK * q0.ls + r : r \in SlackValues}

RequestedLengths(q0) ==
  LET lo == (q0.bgK + 2) * q0.ls
      hi == q0.liftN - 2 * q0.ls
  IN  {0, lo + 1, hi - 1, 2147483647}

(***************************************************************************)
(* Specification.                                                          *)
(***************************************************************************)
Init ==
  /\ q = ZeroInstance
  /\ heap = EmptyHeap
  /\ scratch = NoScratch
  /\ output = <<>>
  /\ init_call = NoInitCall
  /\ call = NoCall
  /\ life = "zeroed"
  /\ LV_HAVE_AVX2 \in BOOLEAN
  /\ PairIdle /\ PolarIdle /\ PdcpIdle

\* srslte_ldpc_encoder_init on a newly zeroed instance (an instance has one
\* lifecycle: it is not initialized again after teardown).
EncoderInit(type, bg, ls, pcmOk, tableOk, ptrOk) ==
  /\ life = "zeroed"
  /\ LET r == srslte_ldpc_encoder_init(q, heap, type, bg, ls, pcmOk, tableOk,
                                       ptrOk, LV_HAVE_AVX2)
     IN  /\ q' = r.q
         /\ heap' = r.heap
         /\ life' = IF r.ret = 0 THEN "ready" ELSE "failed"
         /\ output' = <<>>
         /\ call' = [NoCall EXCEPT !.op = "init", !.from = life, !.ret = r.ret]
         /\ init_call' = [called |-> TRUE, type |-> type, bg |-> bg, ls |-> ls,
                          pcmOk |-> pcmOk, tableOk |-> tableOk,
                          ptrOk |-> ptrOk, ret |-> r.ret]
  /\ scratch' = NoScratch
  /\ UNCHANGED <<LV_HAVE_AVX2, pairVars, polarVars, pdcpVars>>

\* srslte_ldpc_encoder_encode on an initialized instance; the caller passes
\* an output buffer, of which the model records the bytes the call writes.
Encode(id, input_length) ==
  /\ life = "ready"
  /\ LET r == srslte_ldpc_encoder_encode(q, scratch, id, <<>>, input_length)
     IN  /\ output' = r.output
         /\ scratch' = r.scratch
         /\ call' = [NoCall EXCEPT !.op = "encode", !.from = life,
                       !.ret = r.ret, !.in = id, !.input_length = input_length,
                       !.requested = q.liftN - 2 * q.ls,
                       !.cdwd_rm_length = r.cdwd_rm_length,
                       !.n_layers = r.n_layers]
  /\ UNCHANGED <<q, heap, init_call, life, LV_HAVE_AVX2>>
  /\ UNCHANGED <<pairVars, polarVars, pdcpVars>>

\* srslte_ldpc_encoder_encode_rm on an initialized instance.
EncodeRm(id, input_length, cdwd_rm_length) ==
  /\ life = "ready"
  /\ LET r == srslte_ldpc_encoder_encode_rm(q, scratch, id, <<>>,
                                            input_length, cdwd_rm_length)
     IN  /\ output' = r.output
         /\ scratch' = r.scratch
         /\ call' = [NoCall EXCEPT !.op = "encode_rm", !.from = life,
                       !.ret = r.ret, !.in = id, !.input_length = input_length,
                       !.requested = cdwd_rm_length,
                       !.cdwd_rm_length = r.cdwd_rm_length,
                       !.n_layers = r.n_layers]
  /\ UNCHANGED <<q, heap, init_call, life, LV_HAVE_AVX2>>
  /\ UNCHANGED <<pairVars, polarVars, pdcpVars>>

\* srslte_ldpc_encoder_free.  Releasing an object twice is undefined behaviour: the call
\* either runs on to the bzero or the allocator aborts the process.
EncoderFree ==
  /\ life \in {"failed", "ready", "freed"}
  /\ heap' = srslte_ldpc_encoder_free(q, heap)
  /\ \/ /\ q' = ZeroInstance
        /\ life' = "freed"
     \/ /\ DoubleFree(heap')
        /\ q' = q
        /\ life' = "crashed"
  /\ scratch' = NoScratch
  /\ output' = <<>>
  /\ call' = [NoCall EXCEPT !.op = "free", !.from = life]
  /\ UNCHANGED <<init_call, LV_HAVE_AVX2, pairVars, polarVars, pdcpVars>>

Next ==
  \/ \E type \in TypeValues, bg \in BgValues, ls \in LsValues,
        pcmOk \in BOOLEAN, tableOk \in BOOLEAN, ptrOk \in BOOLEAN :
       EncoderInit(type, bg, ls, pcmOk, tableOk, ptrOk)
  \/ \E id \in Inputs, input_length \in InputLengths(q) :
       Encode(id, input_length)
  \/ \E id \in Inputs, input_length \in InputLengths(q),
        cdwd_rm_length \in RequestedLengths(q) :
       EncodeRm(id, input_length, cdwd_rm_length)
  \/ EncoderFree

Spec == Init /\ [][Next]_vars

(***************************************************************************)
(* Properties.                                                             *)
(***************************************************************************)
\* The last call was an encode or encode_rm call.
EncodeCall == call.op \in {"encode", "encode_rm"}
\* ... and it passed the dimension check.
EncodeOk == EncodeCall /\ call.ret = 0
\* The floor and the ceiling of the effective codeword length.
Lo(q0) == (q0.bgK + 2) * q0.ls
Hi(q0) == q0.liftN - 2 * q0.ls

\* C1: whatever codeword length is requested, the effective length that
\* encode_c, encode_avx2 and encode_avx2long end up with is a multiple of ls
\* in the closed interval [(bgK+2)*ls, liftN-2*ls].
C1_EffectiveLengthInRange ==
  EncodeOk =>
    /\ call.cdwd_rm_length % q.ls = 0
    /\ Lo(q) <= call.cdwd_rm_length
    /\ call.cdwd_rm_length <= Hi(q)

\* A request far above liftN, served by the large-lifting-size tier, and
\* clamped to liftN - 2*ls.
C1_Witness ==
  /\ call.op = "encode_rm" /\ call.ret = 0
  /\ call.requested = 2147483647
  /\ q.encode = "encode_avx2long"
  /\ call.cdwd_rm_length = Hi(q)

\* C2: an input_length other than bgK*ls is a usage error: encode and
\* encode_rm return a negative result and write nothing to the output.
C2_InexactLengthRejected ==
  (EncodeCall /\ call.input_length # q.bgK * q.ls) =>
    (call.ret < 0 /\ output = <<>>)

\* The init call got as far as the scratch-buffer allocation, which failed.
ScratchAllocFailed ==
  /\ init_call.called
  /\ init_call.bg \in {BG1, BG2}
  /\ init_call.pcmOk /\ init_call.tableOk
  /\ get_ls_index(init_call.ls) # VOID_LIFTSIZE
  /\ \/ init_call.type = SRSLTE_LDPC_ENCODER_C
     \/ init_call.type = SRSLTE_LDPC_ENCODER_AVX2 /\ LV_HAVE_AVX2
  /\ ~init_call.ptrOk

\* C3: after an init whose scratch-buffer allocation failed, init has
\* returned an error, no heap object is ever released twice, and after
\* srslte_ldpc_encoder_free nothing is left allocated.
C3_FailedInitSafelyDestroyable ==
  ScratchAllocFailed =>
    /\ init_call.ret < 0
    /\ heap.pcmFrees <= 1 /\ heap.ptrFrees <= 1
    /\ call.op = "free" => (heap.pcm # "live" /\ heap.ptr # "live")

\* The three tiers, and the instance each tier's init builds for a base
\* graph and a lifting size when every allocation succeeds.
Tiers == {"c", "avx2", "avx2long"}

TierInstance(tier, bg, ls) ==
  LET q0 == [SetDimensions(ZeroInstance, bg, ls) EXCEPT !.pcm = "PCM"]
  IN  CASE tier = "c" -> init_c(q0, EmptyHeap, TRUE).q
        [] tier = "avx2" -> init_avx2(q0, EmptyHeap, TRUE).q
        [] tier = "avx2long" -> init_avx2long(q0, EmptyHeap, TRUE).q

\* The tier's encode routine on the tier's instance.
TierEncode(tier, bg, ls, id, input_length, cdwd_rm_length) ==
  LET q0 == TierInstance(tier, bg, ls)
  IN  CASE tier = "c" ->
             encode_c(q0, NoScratch, id, <<>>, input_length, cdwd_rm_length)
        [] tier = "avx2" ->
             encode_avx2(q0, NoScratch, id, <<>>, input_length, cdwd_rm_length)
        [] tier = "avx2long" ->
             encode_avx2long(q0, NoScratch, id, <<>>, input_length, cdwd_rm_length)

\* C4: for the base graph, lifting size, input and lengths of any encode
\* call, each of the three tiers returns the result code of the call, ends
\* with the same effective length and n_layers, and writes the same bytes.
C4_TiersAgree ==
  EncodeCall =>
    \A tier \in Tiers :
      LET r == TierEncode(tier, q.bg, q.ls, call.in, call.input_length,
                          call.requested)
      IN  /\ r.ret = call.ret
          /\ r.cdwd_rm_length = call.cdwd_rm_length
          /\ r.n_layers = call.n_layers
          /\ WrittenLength(r.output) = WrittenLength(output)
          /\ \/ r.output = output
             \/ \A k \in 0..(WrittenLength(output) - 1) :
                  OutByte(r.output, k) = OutByte(output, k)

\* A rate-matched call on the portable tier with a non-zero input, whose
\* output reaches into the extension region.
C4_Witness ==
  /\ call.op = "encode_rm" /\ call.ret = 0
  /\ q.encode = "encode_c"
  /\ call.in = 2
  /\ call.requested = Lo(q) + 1
  /\ WrittenLength(output) = Lo(q) + q.ls

\* C5: after a successful encode or encode_rm, output bytes
\* [0, (bgK-2)*ls) are input bytes [2*ls, bgK*ls).
C5_SystematicRoundTrip ==
  EncodeOk =>
    \A k \in 0..((q.bgK - 2) * q.ls - 1) :
      OutByte(output, k) = InputByte(call.in, 2 * q.ls + k)

\* A full-rate encode of a non-zero input on the portable tier: the
\* high-rate and extension-region writes follow the systematic copy.
C5_Witness ==
  /\ call.op = "encode" /\ call.ret = 0
  /\ call.in = 2
  /\ q.encode = "encode_c"
  /\ Len(output) = 3
  /\ OutByte(output, 3) = 1

\* The variant (1..4) of a high-rate kernel binding, 0 for no kernel.
KernelVariant(name) ==
  CASE name \in {"encode_high_rate_case1", "encode_high_rate_case1_avx2",
                 "encode_high_rate_case1_avx2long"} -> 1
    [] name \in {"encode_high_rate_case2", "encode_high_rate_case2_avx2",
                 "encode_high_rate_case2_avx2long"} -> 2
    [] name \in {"encode_high_rate_case3", "encode_high_rate_case3_avx2",
                 "encode_high_rate_case3_avx2long"} -> 3
    [] name \in {"encode_high_rate_case4", "encode_high_rate_case4_avx2",
                 "encode_high_rate_case4_avx2long"} -> 4
    [] OTHER -> 0

\* The variant the strategy selector is to resolve.
ExpectedVariant(bg, ls_index) ==
  IF bg = BG1 THEN (IF ls_index # 6 THEN 1 ELSE 2)
  ELSE (IF ls_index \notin {3, 7} THEN 3 ELSE 4)

\* The init call was for a valid base graph and lifting size and got past
\* the table construction into a tier initializer.
ReachedSelector ==
  /\ init_call.called
  /\ init_call.bg \in {BG1, BG2}
  /\ get_ls_index(init_call.ls) # VOID_LIFTSIZE
  /\ init_call.pcmOk /\ init_call.tableOk
  /\ \/ init_call.type = SRSLTE_LDPC_ENCODER_C
     \/ init_call.type = SRSLTE_LDPC_ENCODER_AVX2 /\ LV_HAVE_AVX2

\* C6: for a valid base graph and any of the eight size classes, init binds
\* exactly one high-rate kernel, the variant being 1 for BG1 and class # 6,
\* 2 for BG1 and class 6, 3 for BG2 and class not in {3,7}, 4 for BG2 and
\* class in {3,7}, in each tier; the invalid-combination branch is not taken
\* (the only failure left is the scratch allocation).
C6_KernelSelection ==
  (call.op = "init" /\ ReachedSelector) =>
    /\ KernelVariant(q.encode_high_rate) + KernelVariant(q.encode_high_rate_avx2)
         = ExpectedVariant(q.bg, get_ls_index(q.ls))
    /\ (q.encode_high_rate = "NULL") # (q.encode_high_rate_avx2 = "NULL")
    /\ (q.encode_high_rate # "NULL") <=> (init_call.type = SRSLTE_LDPC_ENCODER_C)
    /\ init_call.ret = 0 <=> init_call.ptrOk
    /\ \A tier \in Tiers :
         LET t == TierInstance(tier, q.bg, q.ls)
         IN  KernelVariant(t.encode_high_rate)
               + KernelVariant(t.encode_high_rate_avx2)
               = ExpectedVariant(q.bg, get_ls_index(q.ls))

\* BG2 with a lifting size of class 7 (15 = 15 * 2^0), accelerated tier.
C6_Witness ==
  /\ call.op = "init" /\ call.ret = 0
  /\ q.bg = BG2 /\ get_ls_index(q.ls) = 7
  /\ q.encode_high_rate_avx2 = "encode_high_rate_case4_avx2"

\* C7: the full-rate operation passes the requested length liftN - 2*ls,
\* which the normalization leaves unchanged, so n_layers is bgM.
C7_FullRateLength ==
  (call.op = "encode" /\ call.ret = 0) =>
    /\ call.requested = q.liftN - 2 * q.ls
    /\ call.cdwd_rm_length = q.liftN - 2 * q.ls
    /\ call.n_layers = q.bgM

\* BG1 with ls = 56: the full-rate codeword has 66 * 56 bytes and all 46
\* parity layers.
C7_Witness ==
  /\ call.op = "encode" /\ call.ret = 0
  /\ q.bg = BG1 /\ q.ls = 56
  /\ call.cdwd_rm_length = 3696
  /\ call.n_layers = 46

\* C8: after a successful init, free releases the table and the scratch
\* buffer once each and zeroes the instance; further frees release nothing.
C8_FreeReleasesOnce ==
  (init_call.called /\ init_call.ret = 0 /\ call.op = "free") =>
    /\ heap.pcm = "freed" /\ heap.pcmFrees = 1
    /\ heap.ptr = "freed" /\ heap.ptrFrees = 1
    /\ q = ZeroInstance
    /\ life = "freed"

\* The second free of an instance that had been initialized successfully.
C8_Witness ==
  /\ init_call.called /\ init_call.ret = 0
  /\ call.op = "free" /\ call.from = "freed"
  /\ heap.pcmFrees = 1 /\ heap.ptrFrees = 1
  /\ q.encode = "NULL"

\* C9: init fails for a base graph other than BG1/BG2, a lifting size
\* outside the standardized set, a failed table allocation or construction,
\* a failed scratch allocation and an unsupported tier; it succeeds only
\* with table, scratch buffer, kernel, free and encode all set; and a failed
\* init leaves the encode routine unset.
C9_InitErrors ==
  init_call.called =>
    /\ ( \/ init_call.bg \notin {BG1, BG2}
         \/ get_ls_index(init_call.ls) = VOID_LIFTSIZE
         \/ ~init_call.pcmOk \/ ~init_call.tableOk \/ ~init_call.ptrOk
         \/ init_call.type \notin {SRSLTE_LDPC_ENCODER_C, SRSLTE_LDPC_ENCODER_AVX2}
         \/ (init_call.type = SRSLTE_LDPC_ENCODER_AVX2 /\ ~LV_HAVE_AVX2) )
       => init_call.ret < 0
    /\ (call.op = "init" /\ call.ret = 0) =>
         /\ q.pcm # "NULL" /\ heap.pcm = "live"
         /\ q.ptr # "NULL" /\ heap.ptr = "live"
         /\ KernelVariant(q.encode_high_rate)
              + KernelVariant(q.encode_high_rate_avx2) > 0
         /\ q.free # "NULL"
         /\ q.encode # "NULL"
    /\ (call.op = "init" /\ call.ret # 0) => q.encode = "NULL"

\* An init that fails at the scratch allocation, after the free binding was
\* set.
C9_Witness ==
  /\ call.op = "init" /\ call.ret = -1
  /\ ~init_call.ptrOk
  /\ q.free = "free_enc_avx2long"
  /\ q.encode = "NULL"

\* C10: a call that fails the dimension check writes nothing to the output
\* and leaves the scratch buffer, the instance and the heap as they were.
C10_FailedCallHasNoEffect ==
  [][(call'.op \in {"encode", "encode_rm"} /\ call'.ret # 0) =>
       (output' = <<>> /\ scratch' = scratch /\ q' = q /\ heap' = heap
        /\ life' = life)]_vars

\* A failed call made after a successful one: the scratch buffer still
\* holds what the successful call left.
C10_Witness ==
  /\ call.op = "encode_rm" /\ call.ret = -1
  /\ call.input_length = q.bgK * q.ls - 1
  /\ scratch.in = 2
  /\ output = <<>>

\* The effective length the normalization is to produce: the request is
\* brought into [lo, hi] and the result rounded up to a multiple of ls.
EffectiveLength(q0, requested) ==
  LET floored == IF requested > Lo(q0) THEN requested ELSE Lo(q0)
      clamped == IF floored < Hi(q0) THEN floored ELSE Hi(q0)
  IN  ((clamped + q0.ls - 1) \div q0.ls) * q0.ls

\* C13: the effective length of a call is
\* ceil(min(max(requested, lo), hi) / ls) * ls with lo = (bgK+2)*ls and
\* hi = liftN - 2*ls: a multiple of ls inside [lo, hi] is used unchanged, a
\* request inside [lo, hi] that is not a multiple is rounded up to the next
\* multiple, and the result is a function of the instance and the request.
C13_EffectiveLengthFormula ==
  EncodeOk =>
    /\ call.cdwd_rm_length = EffectiveLength(q, call.requested)
    /\ (Lo(q) <= call.requested /\ call.requested <= Hi(q)) =>
         IF call.requested % q.ls = 0
           THEN call.cdwd_rm_length = call.requested
           ELSE call.cdwd_rm_length = (call.requested \div q.ls + 1) * q.ls

\* A request one byte above the floor, in the small accelerated tier, served
\* with the next multiple of ls.
C13_Witness ==
  /\ call.op = "encode_rm" /\ call.ret = 0
  /\ q.encode = "encode_avx2"
  /\ call.requested = Lo(q) + 1
  /\ call.cdwd_rm_length = Lo(q) + q.ls

\* The number of extension layers the portable tier's extension region
\* wrote into the output: the width of the writes above the high-rate
\* region, in block-columns.
ExtLayersWritten(q0, out) ==
  LET ext == {i \in 1..Len(out) : out[i].lo >= Lo(q0)}
  IN  IF ext = {} THEN 0
      ELSE LET i == CHOOSE i \in ext : TRUE
           IN  (out[i].hi - out[i].lo) \div q0.ls

\* C14: n_layers = cdwd_rm_length/ls - bgK + 2 lies in [4, bgM], so the 8-bit
\* local holds it without truncation and (bgK - 2 + n_layers)*ls is the
\* effective length; the extension region produces exactly n_layers - 4
\* layers beyond the high-rate region, none when the length is the floor.
C14_LayerCount ==
  EncodeOk =>
    /\ call.n_layers = call.cdwd_rm_length \div q.ls - q.bgK + 2
    /\ 4 <= call.n_layers /\ call.n_layers <= q.bgM
    /\ (q.bgK - 2 + call.n_layers) * q.ls = call.cdwd_rm_length
    /\ q.encode = "encode_c" =>
         /\ ExtLayersWritten(q, output) = call.n_layers - 4
         /\ WrittenLength(output) = call.cdwd_rm_length
    /\ q.encode # "encode_c" => WrittenLength(output) = call.cdwd_rm_length
    /\ call.cdwd_rm_length = Lo(q) => call.n_layers = 4

\* The portable tier, one layer above the floor: five layers, one of them
\* from the extension region.
C14_Witness ==
  /\ call.op = "encode_rm" /\ call.ret = 0
  /\ q.encode = "encode_c"
  /\ call.requested = Lo(q) + 1
  /\ call.n_layers = 5
  /\ ExtLayersWritten(q, output) = 1

\* The bindings init is to resolve for a tier preference, a base graph and
\* a lifting size.
ExpectedBindings(type, bg, ls) ==
  IF type = SRSLTE_LDPC_ENCODER_C
    THEN [encode |-> "encode_c", free |-> "free_enc_c",
          encode_high_rate |-> select_high_rate_c(bg, get_ls_index(ls)),
          encode_high_rate_avx2 |-> "NULL"]
  ELSE IF ls <= 32
    THEN [encode |-> "encode_avx2", free |-> "free_enc_avx2",
          encode_high_rate |-> "NULL",
          encode_high_rate_avx2 |-> select_high_rate_avx2(bg, get_ls_index(ls))]
  ELSE [encode |-> "encode_avx2long", free |-> "free_enc_avx2long",
        encode_high_rate |-> "NULL",
        encode_high_rate_avx2 |-> select_high_rate_avx2long(bg, get_ls_index(ls))]

\* C15: from a successful init until free, whatever encode calls are made,
\* the encode, free and high-rate bindings are the ones init resolved from
\* its arguments: the portable pair for the portable preference, the small
\* accelerated pair for ls <= 32 and the large accelerated pair otherwise.
C15_BindingsFixed ==
  life = "ready" =>
    LET b == ExpectedBindings(init_call.type, init_call.bg, init_call.ls)
    IN  /\ q.encode = b.encode
        /\ q.free = b.free
        /\ q.encode_high_rate = b.encode_high_rate
        /\ q.encode_high_rate_avx2 = b.encode_high_rate_avx2

\* After a rate-matched encode on an instance of lifting size 36 initialized
\* with the accelerated preference.
C15_Witness ==
  /\ life = "ready" /\ call.op = "encode_rm" /\ call.ret = 0
  /\ init_call.type = SRSLTE_LDPC_ENCODER_AVX2 /\ init_call.ls = 36
  /\ q.encode = "encode_avx2long" /\ q.free = "free_enc_avx2long"

\* C16: from a successful init until free, bgN = bgK + bgM, liftK = ls*bgK,
\* liftM = ls*bgM, liftN = ls*bgN, the base graph and lifting size are
\* init's arguments and the table pointer is the one init allocated.
C16_ConfigurationFixed ==
  life = "ready" =>
    /\ q.bg = init_call.bg /\ q.ls = init_call.ls
    /\ q.bgN = (IF init_call.bg = BG1 THEN 68 ELSE 52)
    /\ q.bgN = q.bgK + q.bgM
    /\ q.liftK = q.ls * q.bgK
    /\ q.liftM = q.ls * q.bgM
    /\ q.liftN = q.ls * q.bgN
    /\ q.pcm = "PCM" /\ heap.pcm = "live" /\ heap.pcmFrees = 0

\* After a successful encode of BG2 with lifting size 52.
C16_Witness ==
  /\ life = "ready" /\ call.op = "encode" /\ call.ret = 0
  /\ q.bg = BG2 /\ q.ls = 52
  /\ q.liftK = 520 /\ q.liftM = 2184 /\ q.liftN = 2704

\* C18: after an init that returned an error, for whatever reason, followed
\* by srslte_ldpc_encoder_free, neither the table nor the scratch buffer is
\* still allocated.
C18_FailedInitLeaksNothing ==
  (init_call.called /\ init_call.ret < 0 /\ call.op = "free") =>
    (heap.pcm # "live" /\ heap.ptr # "live")

(***************************************************************************)
(* Two encoder instances, each used by its own thread.  The heap is one    *)
(* address space shared by the process; an instance reaches its table and  *)
(* its scratch buffer through the addresses q->pcm and q->ptr that init    *)
(* obtained from the allocator.  An encode call is a sequence of steps     *)
(* (the statements of encode_c / encode_avx2 / encode_avx2long, one kernel *)
(* call per step), and the steps of the two threads interleave freely.     *)
(***************************************************************************)
Instances == {1, 2}
Addrs == 1..(2 * Cardinality(Instances))
NullAddr == 0

\* Tier preferences, base graphs and lifting sizes the two instances are
\* initialized with: both tiers, and lifting sizes on both sides of the
\* register block size.
PairTypes == {SRSLTE_LDPC_ENCODER_C, SRSLTE_LDPC_ENCODER_AVX2}
PairBgs == {BG1}
PairLs == {2, 36}

\* The object at an address: nothing, a compact parity-check table built for
\* (bg, ls), or a scratch buffer rebuilt from input block `in`.
FreeCell == [kind |-> "free", bg |-> 0, ls |-> 0, in |-> 0]
TableCell(bg, ls) == [kind |-> "pcm", bg |-> bg, ls |-> ls, in |-> 0]
ScratchCell(scr) == [kind |-> "scratch", bg |-> 0, ls |-> 0, in |-> scr.in]

\* srslte_vec_u16_malloc / srslte_vec_u8_malloc / create_ldpc_enc_avx2: the
\* allocator hands out an address that holds no live object (the lowest).
Malloc(m) ==
  CHOOSE a \in Addrs :
    m[a].kind = "free" /\ \A b \in Addrs : b < a => m[b].kind # "free"

NoInst == [q |-> ZeroInstance, pcm |-> NullAddr, ptr |-> NullAddr]

\* A thread: pc is "zeroed" before init, "idle" between calls, else the next
\* step of its encode call; done says that a call has returned (ret, output,
\* cdwd_rm_length, n_layers are its results); dirty says that when the call
\* began the scratch buffer held the data of another input block.
NoThread ==
  [pc |-> "zeroed", done |-> FALSE, dirty |-> FALSE, ret |-> 0, in |-> 0,
   input_length |-> 0, requested |-> 0, cdwd_rm_length |-> 0, n_layers |-> 0,
   output |-> <<>>]

\* Mutant of ScratchAddr: every instance works in the scratch buffer of the
\* instance that was initialized first.
ScratchAddr_first_instance(i) ==
  LET first == CHOOSE j \in Instances :
                 \A k \in Instances :
                   insts[k].ptr = NullAddr \/ insts[j].ptr <= insts[k].ptr
  IN  IF insts[first].ptr # NullAddr THEN insts[first].ptr ELSE insts[i].ptr

\* q->ptr and q->pcm of instance i.
ScratchAddr(i) == insts[i].ptr
TableAddr(i) == insts[i].pcm

\* What the kernels of instance i read: the scratch buffer at q->ptr, and
\* the table at q->pcm, which yields the code's parity only while it is the
\* table init built for the instance.
ReadScratch(i) == [in |-> mem[ScratchAddr(i)].in]
TableIntact(i) == mem[TableAddr(i)] = TableCell(insts[i].q.bg, insts[i].q.ls)
KernelInput(i) == IF TableIntact(i) THEN ReadScratch(i) ELSE [in |-> STALE]
WriteScratch(i, scr) == [mem EXCEPT ![ScratchAddr(i)] = ScratchCell(scr)]

\* The statements shared by the three encode routines, by the routine bound
\* to q->encode.
DimensionOk(q0, input_length) ==
  CASE q0.encode = "encode_c" -> dimension_ok_c(q0, input_length)
    [] q0.encode = "encode_avx2" -> dimension_ok_avx2(q0, input_length)
    [] q0.encode = "encode_avx2long" -> dimension_ok_avx2long(q0, input_length)

RmLength(q0, cdwd_rm_length) ==
  CASE q0.encode = "encode_c" -> rm_length_c(q0, cdwd_rm_length)
    [] q0.encode = "encode_avx2" -> rm_length_avx2(q0, cdwd_rm_length)
    [] q0.encode = "encode_avx2long" -> rm_length_avx2long(q0, cdwd_rm_length)

NLayers(q0, cdwd) ==
  CASE q0.encode = "encode_c" -> n_layers_c(q0, cdwd)
    [] q0.encode = "encode_avx2" -> n_layers_avx2(q0, cdwd)
    [] q0.encode = "encode_avx2long" -> n_layers_avx2long(q0, cdwd)

\* Arguments <<input_length, cdwd_rm_length>> of the calls: the exact input
\* length with a request below the floor and with the full-rate length, and
\* an input one byte short.
PairArgs(q0) ==
  {<<q0.bgK * q0.ls, 0>>, <<q0.bgK * q0.ls, q0.liftN - 2 * q0.ls>>,
   <<q0.bgK * q0.ls - 1, q0.liftN - 2 * q0.ls>>}

InitPair ==
  /\ insts = [i \in Instances |-> NoInst]
  /\ mem = [a \in Addrs |-> FreeCell]
  /\ thr = [i \in Instances |-> NoThread]
  /\ LV_HAVE_AVX2 = TRUE
  /\ LdpcIdle /\ PolarIdle /\ PdcpIdle

\* srslte_ldpc_encoder_init on instance i, every allocation succeeding.
PairEncoderInit(i, type, bg, ls) ==
  /\ thr[i].pc = "zeroed"
  /\ LET r == srslte_ldpc_encoder_init(ZeroInstance, EmptyHeap, type, bg, ls,
                                       TRUE, TRUE, TRUE, LV_HAVE_AVX2)
         a_pcm == Malloc(mem)
         m1 == [mem EXCEPT ![a_pcm] = TableCell(bg, ls)]
         a_ptr == Malloc(m1)
     IN  /\ r.ret = 0
         /\ insts' = [insts EXCEPT ![i] = [q |-> r.q, pcm |-> a_pcm,
                                           ptr |-> a_ptr]]
         /\ mem' = [m1 EXCEPT ![a_ptr] = ScratchCell(NoScratch)]
  /\ thr' = [thr EXCEPT ![i].pc = "idle"]
  /\ UNCHANGED <<vars, polarVars, pdcpVars>>

\* Thread i enters srslte_ldpc_encoder_encode_rm on its instance.
PairCall(i, id, input_length, cdwd_rm_length) ==
  /\ thr[i].pc = "idle"
  /\ thr' = [thr EXCEPT ![i] =
               [NoThread EXCEPT !.pc = "check", !.in = id,
                  !.input_length = input_length, !.requested = cdwd_rm_length,
                  !.dirty = ReadScratch(i).in \notin {0, id}]]
  /\ UNCHANGED <<insts, mem, vars, polarVars, pdcpVars>>

\* The dimension check and the normalization of the requested length.
StepCheck(i) ==
  /\ thr[i].pc = "check"
  /\ LET q0 == insts[i].q
     IN  IF ~DimensionOk(q0, thr[i].input_length)
           THEN thr' = [thr EXCEPT ![i].pc = "idle", ![i].done = TRUE,
                                   ![i].ret = -1]
           ELSE thr' = [thr EXCEPT
                  ![i].pc = IF q0.encode = "encode_c" THEN "copy" ELSE "load",
                  ![i].cdwd_rm_length = RmLength(q0, thr[i].requested)]
  /\ UNCHANGED <<insts, mem, vars, polarVars, pdcpVars>>

\* encode_c: the loop that copies the systematic bits to the output.
StepCopy(i) ==
  /\ thr[i].pc = "copy"
  /\ thr' = [thr EXCEPT ![i].pc = "preprocess",
               ![i].output = copy_systematic(insts[i].q, thr[i].in, @)]
  /\ UNCHANGED <<insts, mem, vars, polarVars, pdcpVars>>

\* Mutant of StepPreprocess: the scratch buffer is not rebuilt.
StepPreprocess_skipped(i) ==
  /\ thr[i].pc = "preprocess"
  /\ thr' = [thr EXCEPT ![i].pc = "high_rate"]
  /\ UNCHANGED <<insts, mem, vars, polarVars, pdcpVars>>

\* encode_c: preprocess_systematic_bits(q, input).
StepPreprocess(i) ==
  /\ thr[i].pc = "preprocess"
  /\ mem' = WriteScratch(i, preprocess_systematic_bits(insts[i].q, thr[i].in))
  /\ thr' = [thr EXCEPT ![i].pc = "high_rate"]
  /\ UNCHANGED <<insts, vars, polarVars, pdcpVars>>

\* encode_avx2 / encode_avx2long: load_avx2(q->ptr, input, ...).
StepLoad(i) ==
  /\ thr[i].pc = "load"
  /\ mem' = WriteScratch(i, load_avx2(insts[i].q, thr[i].in))
  /\ thr' = [thr EXCEPT ![i].pc = "high_rate"]
  /\ UNCHANGED <<insts, vars, polarVars, pdcpVars>>

\* q->encode_high_rate(q, output) / q->encode_high_rate_avx2(q).
StepHighRate(i) ==
  /\ thr[i].pc = "high_rate"
  /\ IF insts[i].q.encode = "encode_c"
       THEN /\ thr' = [thr EXCEPT ![i].pc = "ext",
                         ![i].output = encode_high_rate(insts[i].q,
                                                        KernelInput(i), @)]
            /\ mem' = mem
       ELSE /\ thr' = [thr EXCEPT ![i].pc = "ext"]
            /\ mem' = WriteScratch(i, encode_high_rate_avx2(insts[i].q,
                                                            KernelInput(i)))
  /\ UNCHANGED <<insts, vars, polarVars, pdcpVars>>

\* n_layers and the extension region; encode_c returns 0 after it.
StepExt(i) ==
  /\ thr[i].pc = "ext"
  /\ LET q0 == insts[i].q
         n_layers == NLayers(q0, thr[i].cdwd_rm_length)
     IN  IF q0.encode = "encode_c"
           THEN /\ thr' = [thr EXCEPT ![i].pc = "idle", ![i].done = TRUE,
                             ![i].ret = 0, ![i].n_layers = n_layers,
                             ![i].output = encode_ext_region(q0, KernelInput(i),
                                                             @, n_layers)]
                /\ mem' = mem
           ELSE /\ thr' = [thr EXCEPT ![i].pc = "return",
                             ![i].n_layers = n_layers]
                /\ mem' = WriteScratch(i, encode_ext_region_avx2(
                                            q0, KernelInput(i), n_layers))
  /\ UNCHANGED <<insts, vars, polarVars, pdcpVars>>

\* encode_avx2 / encode_avx2long: return_codeword_avx2(q->ptr, output, ...)
\* and return 0.
StepReturn(i) ==
  /\ thr[i].pc = "return"
  /\ LET q0 == insts[i].q
     IN  thr' = [thr EXCEPT ![i].pc = "idle", ![i].done = TRUE, ![i].ret = 0,
                   ![i].output = return_codeword_avx2(
                                   q0, ReadScratch(i), @,
                                   (thr[i].n_layers + q0.bgK) % UINT8, q0.ls)]
  /\ UNCHANGED <<insts, mem, vars, polarVars, pdcpVars>>

NextPair ==
  \/ \E i \in Instances, type \in PairTypes, bg \in PairBgs, ls \in PairLs :
       PairEncoderInit(i, type, bg, ls)
  \/ \E i \in Instances, id \in Inputs :
       \E args \in PairArgs(insts[i].q) : PairCall(i, id, args[1], args[2])
  \/ \E i \in Instances : StepCheck(i)
  \/ \E i \in Instances : StepCopy(i)
  \/ \E i \in Instances : StepPreprocess(i)
  \/ \E i \in Instances : StepLoad(i)
  \/ \E i \in Instances : StepHighRate(i)
  \/ \E i \in Instances : StepExt(i)
  \/ \E i \in Instances : StepReturn(i)

SpecPair == InitPair /\ [][NextPair]_<<vars, pairVars, polarVars, pdcpVars>>

\* A thread's call has returned.
Returned(i) == thr[i].pc = "idle" /\ thr[i].done

\* The result of instance i's last call when the whole call runs by itself,
\* on a scratch buffer nobody has used.
Alone(i) ==
  CallEncode(insts[i].q, NoScratch, thr[i].in, <<>>, thr[i].input_length,
             thr[i].requested)

\* The output for a tier preference, base graph, lifting size, input block
\* and requested length: that of the first call on a new instance.
Reference(type, bg, ls, id, requested) ==
  LET q0 == srslte_ldpc_encoder_init(ZeroInstance, EmptyHeap, type, bg, ls,
                                     TRUE, TRUE, TRUE, TRUE).q
  IN  CallEncode(q0, NoScratch, id, <<>>, q0.bgK * q0.ls, requested).output

TypeOf(q0) ==
  IF q0.encode = "encode_c" THEN SRSLTE_LDPC_ENCODER_C
  ELSE SRSLTE_LDPC_ENCODER_AVX2

\* C11: the output of a successful encode is a function of the instance's
\* init parameters, the input block and the requested length: it is the
\* output of the first call on a new instance, whatever earlier calls left
\* in the scratch buffer, and two instances with the same parameters that
\* encoded the same input with the same request hold the same output.
C11_DeterministicHistoryFree ==
  \A i \in Instances :
    (Returned(i) /\ thr[i].ret = 0) =>
      /\ thr[i].output = Reference(TypeOf(insts[i].q), insts[i].q.bg,
                                   insts[i].q.ls, thr[i].in, thr[i].requested)
      /\ \A j \in Instances :
           ( /\ Returned(j) /\ thr[j].ret = 0
             /\ insts[j].q = insts[i].q
             /\ thr[j].in = thr[i].in
             /\ thr[j].requested = thr[i].requested )
           => thr[j].output = thr[i].output

\* Two instances with the same parameters have encoded the same input with
\* the same request; the first one's scratch buffer held another input's
\* data when its call began, the second one's did not.
C11_Witness ==
  /\ Returned(1) /\ thr[1].ret = 0 /\ Returned(2) /\ thr[2].ret = 0
  /\ insts[1].q = insts[2].q
  /\ thr[1].in = 2 /\ thr[2].in = 2
  /\ thr[1].requested = thr[2].requested
  /\ thr[1].dirty /\ ~thr[2].dirty
  /\ thr[1].output # <<>>

\* Every call that has returned has the result it has when run alone.
ReturnsAsAlone ==
  \A i \in Instances :
    Returned(i) =>
      /\ thr[i].ret = Alone(i).ret
      /\ thr[i].output = Alone(i).output
      /\ thr[i].cdwd_rm_length = Alone(i).cdwd_rm_length
      /\ thr[i].n_layers = Alone(i).n_layers

\* A step of one thread leaves the other instance, its table, its scratch
\* buffer and its thread as they were.
StepsKeepApart ==
  \A i \in Instances :
    thr'[i] # thr[i] =>
      \A j \in Instances \ {i} :
        /\ insts'[j] = insts[j]
        /\ thr'[j] = thr[j]
        /\ insts[j].pcm # NullAddr => mem'[insts[j].pcm] = mem[insts[j].pcm]
        /\ insts[j].ptr # NullAddr => mem'[insts[j].ptr] = mem[insts[j].ptr]

\* C12: when two threads each run encode on their own instance, then under
\* every interleaving of their steps each call returns what it returns when
\* run alone, and no step of one thread changes the other instance, its
\* table, its scratch buffer or its bindings; the addresses of the two
\* instances' objects are distinct.
C12_InstancesShareNothing ==
  /\ [](ReturnsAsAlone
        /\ \A i \in Instances : \A j \in Instances \ {i} :
             thr[i].pc # "zeroed" /\ thr[j].pc # "zeroed" =>
               {insts[i].pcm, insts[i].ptr} \cap {insts[j].pcm, insts[j].ptr} = {})
  /\ [][StepsKeepApart]_<<vars, pairVars, polarVars, pdcpVars>>

\* Both calls are in progress at once: thread 1 is past its high-rate
\* kernel, thread 2 has its codeword ready in its scratch buffer, and the
\* two scratch buffers hold different inputs.
C12_Witness ==
  /\ thr[1].pc = "ext" /\ thr[2].pc = "return"
  /\ thr[1].in = 1 /\ thr[2].in = 2
  /\ mem[insts[1].ptr].in = 1 /\ mem[insts[2].ptr].in = 2

(***************************************************************************)
(* The hard-decision helpers of lib/src/phy/fec/polar/                     *)
(* polar_decoder_vector.c: srslte_vec_hard_bit_sc (int16_t input) and      *)
(* srslte_vec_hard_bit_cc (int8_t input), both expansions of the hard_bit  *)
(* macro.                                                                  *)
(***************************************************************************)
INT8_MIN == -128
INT8_MAX == 127
INT16_MIN == -32768
INT16_MAX == 32767

\* Longest vector with more than one element passed to the helpers.
MaxVecLen == 2

\* Values of the elements of the longer vectors: the extremes of both
\* widths, zero and its neighbours.
VecSamples == {INT16_MIN, INT8_MIN, -1, 0, 1, INT8_MAX, INT16_MAX}

\* The input vectors: every int16_t value as a one-element vector, and all
\* vectors of 0 and 2..MaxVecLen sampled elements.
VecInputs ==
  {<<v>> : v \in INT16_MIN..INT16_MAX}
    \cup UNION {[1..n -> VecSamples] : n \in (0..MaxVecLen) \ {1}}

\* The integers a float represents exactly: the argument of sgn is
\* converted from int16_t / int8_t to float, which changes no value of
\* these widths.
FloatExact == 16777216
int_to_float(v) ==
  IF -FloatExact <= v /\ v <= FloatExact THEN v
  ELSE IF v > 0 THEN FloatExact ELSE -FloatExact

\* static int sgn(float v) { return (v > 0) - (v < 0); }
sgn(v) == (IF v > 0 THEN 1 ELSE 0) - (IF v < 0 THEN 1 ELSE 0)

\* Mutant of hard_bit_element: the sign is taken the other way round.
hard_bit_element_inverted(xi) ==
  LET s == sgn(int_to_float(xi))
  IN  IF s = 0 THEN 0 ELSE ((1 + s) % UINT8) \div 2

\* The body of the hard_bit loop for one element:
\* s = sgn(x[i]); z[i] = (s == 0) ? 0 : (uint8_t)(1 - s) / 2.
hard_bit_element(xi) ==
  LET s == sgn(int_to_float(xi))
  IN  IF s = 0 THEN 0 ELSE ((1 - s) % UINT8) \div 2

\* The hard_bit macro: for (uint16_t i = 0; i < len; ++i) over x and z.
RECURSIVE hard_bit_loop(_, _, _, _)
hard_bit_loop(x, z, len, i) ==
  IF i >= len THEN z
  ELSE hard_bit_loop(x, [z EXCEPT ![i + 1] = hard_bit_element(x[i + 1])],
                     len, (i + 1) % UINT16)

hard_bit(x, z, len) == hard_bit_loop(x, z, len, 0)

srslte_vec_hard_bit_sc(x, z, len) == hard_bit(x, z, len)
srslte_vec_hard_bit_cc(x, z, len) == hard_bit(x, z, len)

\* The caller's z buffer before the call: as long as x, nothing written.
StaleVec(x) == [i \in 1..Len(x) |-> STALE]

InitPolar ==
  /\ \E x \in VecInputs : vec = [op |-> "none", x |-> x, y |-> <<>>,
                                 z |-> StaleVec(x), len |-> 0]
  /\ LV_HAVE_AVX2 = FALSE
  /\ LdpcIdle /\ PairIdle /\ PdcpIdle

\* srslte_vec_hard_bit_sc(x, z, len) on a vector of int16_t.
HardBitSc(len) ==
  /\ vec.op = "none"
  /\ \A i \in 1..Len(vec.x) : INT16_MIN <= vec.x[i] /\ vec.x[i] <= INT16_MAX
  /\ vec' = [vec EXCEPT !.op = "hard_bit_sc", !.len = len,
                        !.z = srslte_vec_hard_bit_sc(vec.x, vec.z, len)]
  /\ UNCHANGED <<vars, pairVars, pdcpVars>>

\* srslte_vec_hard_bit_cc(x, z, len) on a vector of int8_t.
HardBitCc(len) ==
  /\ vec.op = "none"
  /\ \A i \in 1..Len(vec.x) : INT8_MIN <= vec.x[i] /\ vec.x[i] <= INT8_MAX
  /\ vec' = [vec EXCEPT !.op = "hard_bit_cc", !.len = len,
                        !.z = srslte_vec_hard_bit_cc(vec.x, vec.z, len)]
  /\ UNCHANGED <<vars, pairVars, pdcpVars>>

\* The conversion of an int to int16_t / int8_t on assignment: the value is
\* reduced modulo 2^16 / 2^8 into the range of the type.
to_int16(v) == ((v - INT16_MIN) % UINT16) + INT16_MIN
to_int8(v) == ((v - INT8_MIN) % UINT8) + INT8_MIN

\* int abs(int): the operand has been promoted to int.
abs(v) == IF v < 0 THEN -v ELSE v

\* The body of the loop of srslte_vec_function_f_sss / _ccc for one element;
\* narrow is the conversion to the type of L0, L1, absL0, absL1, sgnL0L1.
function_f_element(xi, yi, type) ==
  LET narrow(v) == IF type = "int8_t" THEN to_int8(v) ELSE to_int16(v)
      L0 == xi
      L1 == yi
      absL0 == narrow(abs(L0))
      absL1 == narrow(abs(L1))
      sgnL0L1 == narrow(sgn(int_to_float(L0)) * sgn(int_to_float(L1)))
  IN  IF absL0 >= absL1 THEN narrow(sgnL0L1 * absL1)
      ELSE narrow(sgnL0L1 * absL0)

\* for (int i = 0; i < len; i++) over x, y and z.
RECURSIVE function_f_loop(_, _, _, _, _, _)
function_f_loop(x, y, z, len, i, type) ==
  IF i >= len THEN z
  ELSE function_f_loop(x, y,
         [z EXCEPT ![i + 1] = function_f_element(x[i + 1], y[i + 1], type)],
         len, i + 1, type)

srslte_vec_function_f_sss(x, y, z, len) ==
  function_f_loop(x, y, z, len, 0, "int16_t")
srslte_vec_function_f_ccc(x, y, z, len) ==
  function_f_loop(x, y, z, len, 0, "int8_t")

\* The second operands tried with x: of the same length; every int8_t with
\* a one-element vector of int8_t.
SecondInputsS(x) == [1..Len(x) -> VecSamples]
SecondInputsC(x) ==
  IF Len(x) = 1 THEN {<<v>> : v \in INT8_MIN..INT8_MAX}
  ELSE [1..Len(x) -> VecSamples \cap (INT8_MIN..INT8_MAX)]

\* srslte_vec_function_f_sss(x, y, z, len) on vectors of int16_t.
FunctionFSss(len) ==
  /\ vec.op = "none"
  /\ \A i \in 1..Len(vec.x) : INT16_MIN <= vec.x[i] /\ vec.x[i] <= INT16_MAX
  /\ \E y \in SecondInputsS(vec.x) :
       vec' = [vec EXCEPT !.op = "f_sss", !.y = y, !.len = len,
                 !.z = srslte_vec_function_f_sss(vec.x, y, vec.z, len)]
  /\ UNCHANGED <<vars, pairVars, pdcpVars>>

\* srslte_vec_function_f_ccc(x, y, z, len) on vectors of int8_t.
FunctionFCcc(len) ==
  /\ vec.op = "none"
  /\ \A i \in 1..Len(vec.x) : INT8_MIN <= vec.x[i] /\ vec.x[i] <= INT8_MAX
  /\ \E y \in SecondInputsC(vec.x) :
       vec' = [vec EXCEPT !.op = "f_ccc", !.y = y, !.len = len,
                 !.z = srslte_vec_function_f_ccc(vec.x, y, vec.z, len)]
  /\ UNCHANGED <<vars, pairVars, pdcpVars>>

NextPolar ==
  \/ \E len \in 0..Len(vec.x) : HardBitSc(len)
  \/ \E len \in 0..Len(vec.x) : HardBitCc(len)
  \/ \E len \in 0..Len(vec.x) : FunctionFSss(len)
  \/ \E len \in 0..Len(vec.x) : FunctionFCcc(len)

SpecPolar == InitPolar /\ [][NextPolar]_<<vars, pairVars, polarVars, pdcpVars>>

\* C17: srslte_vec_hard_bit_sc and srslte_vec_hard_bit_cc write 1 for a
\* negative input element and 0 for a zero or positive one, for every
\* value of the element type (the most negative one and zero included), in
\* each of the first len elements of z, and write no other element.
C17_HardBit ==
  vec.op \in {"hard_bit_sc", "hard_bit_cc"} =>
    \A i \in 1..Len(vec.x) :
      vec.z[i] = IF i > vec.len THEN STALE
                 ELSE IF vec.x[i] < 0 THEN 1 ELSE 0

\* The 8-bit routine on the most negative int8_t next to zero.
C17_Witness ==
  /\ vec.op = "hard_bit_cc"
  /\ vec.x = <<-128, 0>> /\ vec.len = 2
  /\ vec.z = <<1, 0>>

(***************************************************************************)
(* The bearer manager of lib/src/upper/pdcp.cc: the bearer map pdcp_array, *)
(* the lcid cache valid_lcids_cached read by is_lcid_enabled, and the      *)
(* operations add_bearer, del_bearer, change_lcid, reset and the           *)
(* operations that look a bearer up and call into its entity.              *)
(***************************************************************************)
\* Number of radio bearers (srsran/common/common.h).
SRSRAN_N_RADIO_BEARERS == 11

\* The lcid arguments: the lowest and the highest lcid in range, the first
\* one out of range and one more.
Lcids == {0, 10, 11, 12}

\* cfg.rat: the two radio access technologies add_bearer knows, and another
\* value of the enumeration.
Rats == {"lte", "nr", "other"}

\* A unique_ptr<pdcp_entity_base>: empty, or owning the entity that was
\* constructed for an lcid.
NullEntity == [live |-> FALSE, lcid |-> 0]
NewEntity(lcid) == [live |-> TRUE, lcid |-> lcid]

\* The record of the last call: the operation, its lcid arguments and
\* whether it returned or ended the process by calling through an empty
\* pointer.
NoPdcpCall == [op |-> "none", lcid |-> 0, new_lcid |-> 0, outcome |-> "returned"]

\* Outcomes of a member call through an empty unique_ptr (undefined
\* behaviour): the process is terminated, or the call returns some value
\* and execution goes on.
UbOutcomes == {"crash", "returns_true", "returns_false"}

\* std::map operations.
MapInsert(m, key, entity) ==
  [k \in DOMAIN m \cup {key} |-> IF k = key THEN entity ELSE m[k]]
MapErase(m, key) == [k \in DOMAIN m \ {key} |-> m[k]]
EmptyMap == [k \in {} |-> NullEntity]

\* bool pdcp::valid_lcid(uint32_t lcid)
valid_lcid(m, lcid) ==
  IF lcid >= SRSRAN_N_RADIO_BEARERS THEN FALSE ELSE lcid \in DOMAIN m

\* bool pdcp::is_lcid_enabled(uint32_t lcid)
is_lcid_enabled(cache, lcid) == Cardinality(cache \cap {lcid}) > 0

\* void pdcp::add_bearer(uint32_t lcid, pdcp_config_t cfg).  rrcNr tells
\* whether rrc_nr is set, cfgOk is the result of entity->configure(cfg), ub
\* the outcome of calling configure through an empty pointer.  The result
\* is the map, the cache and the outcome of the call.
add_bearer(m, cache, lcid, rat, rrcNr, cfgOk, ub) ==
  LET same == [map |-> m, cache |-> cache, outcome |-> "returned"]
      entity == IF rat = "lte" \/ rat = "nr" THEN NewEntity(lcid)
                ELSE NullEntity
      configured == IF entity.live THEN cfgOk ELSE ub = "returns_true"
  IN  IF valid_lcid(m, lcid) THEN same
      ELSE IF rat = "nr" /\ ~rrcNr THEN same
      ELSE IF ~entity.live /\ ub = "crash"
        THEN [same EXCEPT !.outcome = "crashed"]
      ELSE IF ~configured THEN same
      ELSE IF lcid \in DOMAIN m THEN same
      ELSE [map |-> MapInsert(m, lcid, entity), cache |-> cache \cup {lcid},
            outcome |-> "returned"]

\* void pdcp::del_bearer(uint32_t lcid)
del_bearer(m, cache, lcid) ==
  LET cache1 == cache \ {lcid}
  IN  IF valid_lcid(m, lcid)
        THEN [map |-> MapErase(m, lcid), cache |-> cache1, outcome |-> "returned"]
        ELSE [map |-> m, cache |-> cache1, outcome |-> "returned"]

\* void pdcp::change_lcid(uint32_t old_lcid, uint32_t new_lcid): the entity
\* is moved out of the old entry into the pair handed to insert; when the
\* insertion fails the pair, and the entity with it, is destroyed.
change_lcid(m, cache, old_lcid, new_lcid) ==
  IF valid_lcid(m, old_lcid) /\ ~valid_lcid(m, new_lcid)
    THEN LET pdcp_entity == m[old_lcid]
             m1 == [m EXCEPT ![old_lcid] = NullEntity]
         IN  IF new_lcid \in DOMAIN m1
               THEN [map |-> m1, cache |-> cache, outcome |-> "returned"]
               ELSE [map |-> MapErase(MapInsert(m1, new_lcid, pdcp_entity),
                                      old_lcid),
                     cache |-> (cache \ {old_lcid}) \cup {new_lcid},
                     outcome |-> "returned"]
    ELSE [map |-> m, cache |-> cache, outcome |-> "returned"]

\* void pdcp::reset()
reset(m, cache) == [map |-> EmptyMap, cache |-> {}, outcome |-> "returned"]

\* write_sdu, write_pdu, reestablish(lcid), config_security, ...:
\* if (valid_lcid(lcid)) pdcp_array.at(lcid)->...
use_bearer(m, cache, lcid) ==
  IF valid_lcid(m, lcid) /\ ~m[lcid].live
    THEN [map |-> m, cache |-> cache, outcome |-> "crashed"]
    ELSE [map |-> m, cache |-> cache, outcome |-> "returned"]

InitPdcp ==
  /\ pdcp_array = EmptyMap
  /\ valid_lcids_cached = {}
  /\ pdcp_call = NoPdcpCall
  /\ rrc_nr \in BOOLEAN
  /\ cache_mutex = "free" /\ wr = <<>> /\ rd = <<>>
  /\ LV_HAVE_AVX2 = FALSE
  /\ LdpcIdle /\ PairIdle /\ PolarIdle

\* The effect r of a call on the state.
PdcpEffect(r, op, lcid, new_lcid) ==
  /\ pdcp_array' = r.map
  /\ valid_lcids_cached' = r.cache
  /\ pdcp_call' = [op |-> op, lcid |-> lcid, new_lcid |-> new_lcid,
                   outcome |-> r.outcome]
  /\ UNCHANGED <<rrc_nr, cache_mutex, wr, rd, vars, pairVars, polarVars>>

\* The calls; none is made once the process has been terminated.
AddBearer(lcid, rat, cfgOk, ub) ==
  /\ pdcp_call.outcome = "returned"
  /\ PdcpEffect(add_bearer(pdcp_array, valid_lcids_cached, lcid, rat, rrc_nr,
                           cfgOk, ub), "add_bearer", lcid, 0)

DelBearer(lcid) ==
  /\ pdcp_call.outcome = "returned"
  /\ PdcpEffect(del_bearer(pdcp_array, valid_lcids_cached, lcid),
                "del_bearer", lcid, 0)

ChangeLcid(old_lcid, new_lcid) ==
  /\ pdcp_call.outcome = "returned"
  /\ PdcpEffect(change_lcid(pdcp_array, valid_lcids_cached, old_lcid,
                            new_lcid),
                "change_lcid", old_lcid, new_lcid)

Reset ==
  /\ pdcp_call.outcome = "returned"
  /\ PdcpEffect(reset(pdcp_array, valid_lcids_cached), "reset", 0, 0)

WriteSdu(lcid) ==
  /\ pdcp_call.outcome = "returned"
  /\ PdcpEffect(use_bearer(pdcp_array, valid_lcids_cached, lcid),
                "write_sdu", lcid, 0)

NextPdcp ==
  \/ \E lcid \in Lcids, rat \in Rats, cfgOk \in BOOLEAN, ub \in UbOutcomes :
       AddBearer(lcid, rat, cfgOk, ub)
  \/ \E lcid \in Lcids : DelBearer(lcid)
  \/ \E old_lcid \in Lcids, new_lcid \in Lcids : ChangeLcid(old_lcid, new_lcid)
  \/ Reset
  \/ \E lcid \in Lcids : WriteSdu(lcid)

SpecPdcp == InitPdcp /\ [][NextPdcp]_<<vars, pairVars, polarVars, pdcpVars>>

\* C19: after any sequence of completed add_bearer, del_bearer, change_lcid
\* and reset calls, for every lcid, is_lcid_enabled(lcid) is true if and
\* only if valid_lcid(lcid) is true.
C19_CacheMatchesValidLcids ==
  pdcp_call.outcome = "returned" =>
    \A lcid \in Lcids :
      is_lcid_enabled(valid_lcids_cached, lcid) <=> valid_lcid(pdcp_array, lcid)

\* C20: every entry of the bearer map holds a live entity, so no operation
\* that looks a bearer up calls through an empty pointer, and a change_lcid
\* that did not move the bearer leaves the entity at the old lcid.
C20_EntriesHoldLiveEntities ==
  /\ \A lcid \in DOMAIN pdcp_array : pdcp_array[lcid].live
  /\ pdcp_call.op = "write_sdu" => pdcp_call.outcome = "returned"

(***************************************************************************)
(* The bearer manager used by two threads: the stack thread runs           *)
(* add_bearer, del_bearer, change_lcid and reset, statement by statement,  *)
(* while another thread calls is_lcid_enabled.  cache_mutex is taken by    *)
(* the lock_guard objects of the code and released at the end of their     *)
(* scope.                                                                  *)
(***************************************************************************)
NoWriter ==
  [pc |-> "idle", lcid |-> 0, new_lcid |-> 0, entity |-> NullEntity]
\* in_map records whether the lcid was a key of pdcp_array when the cache
\* was read.
NoReader == [pc |-> "idle", lcid |-> 0, result |-> FALSE, in_map |-> FALSE]

InitPdcpThreads ==
  /\ pdcp_array = EmptyMap
  /\ valid_lcids_cached = {}
  /\ pdcp_call = NoPdcpCall
  /\ rrc_nr \in BOOLEAN
  /\ cache_mutex = "free"
  /\ wr = NoWriter
  /\ rd = NoReader
  /\ LV_HAVE_AVX2 = FALSE
  /\ LdpcIdle /\ PairIdle /\ PolarIdle

\* add_bearer up to the insertion: the guard, the construction of the
\* entity for cfg.rat and entity->configure(cfg).
AddBearerBegin(lcid, rat, cfgOk, ub) ==
  /\ wr.pc = "idle" /\ pdcp_call.outcome = "returned"
  /\ LET entity == IF rat = "lte" \/ rat = "nr" THEN NewEntity(lcid)
                   ELSE NullEntity
         configured == IF entity.live THEN cfgOk ELSE ub = "returns_true"
     IN  IF valid_lcid(pdcp_array, lcid) \/ (rat = "nr" /\ ~rrc_nr)
           THEN wr' = NoWriter /\ pdcp_call' = pdcp_call
         ELSE IF ~entity.live /\ ub = "crash"
           THEN /\ wr' = NoWriter
                /\ pdcp_call' = [op |-> "add_bearer", lcid |-> lcid,
                                 new_lcid |-> 0, outcome |-> "crashed"]
         ELSE IF ~configured THEN wr' = NoWriter /\ pdcp_call' = pdcp_call
         ELSE /\ wr' = [pc |-> "add_insert", lcid |-> lcid, new_lcid |-> 0,
                        entity |-> entity]
              /\ pdcp_call' = pdcp_call
  /\ UNCHANGED <<pdcp_array, valid_lcids_cached, rrc_nr, cache_mutex, rd,
                 vars, pairVars, polarVars>>

\* add_bearer: pdcp_array.insert(std::make_pair(lcid, std::move(entity))).
AddBearerInsert ==
  /\ wr.pc = "add_insert"
  /\ IF wr.lcid \in DOMAIN pdcp_array
       THEN wr' = NoWriter /\ pdcp_array' = pdcp_array
       ELSE /\ pdcp_array' = MapInsert(pdcp_array, wr.lcid, wr.entity)
            /\ wr' = [wr EXCEPT !.pc = "add_lock"]
  /\ UNCHANGED <<valid_lcids_cached, pdcp_call, rrc_nr, cache_mutex, rd, vars,
                 pairVars, polarVars>>

\* add_bearer: std::lock_guard<std::mutex> lock(cache_mutex).
AddBearerLock ==
  /\ wr.pc = "add_lock"
  /\ cache_mutex = "free"
  /\ cache_mutex' = "writer"
  /\ wr' = [wr EXCEPT !.pc = "add_cache"]
  /\ UNCHANGED <<pdcp_array, valid_lcids_cached, pdcp_call, rrc_nr, rd, vars,
                 pairVars, polarVars>>

\* add_bearer: valid_lcids_cached.insert(lcid) and the end of the lock's
\* scope.
AddBearerCache ==
  /\ wr.pc = "add_cache"
  /\ valid_lcids_cached' = valid_lcids_cached \cup {wr.lcid}
  /\ cache_mutex' = "free"
  /\ wr' = NoWriter
  /\ UNCHANGED <<pdcp_array, pdcp_call, rrc_nr, rd, vars, pairVars, polarVars>>

\* del_bearer: the lock_guard of its first block.
DelBearerLock(lcid) ==
  /\ wr.pc = "idle" /\ pdcp_call.outcome = "returned"
  /\ cache_mutex = "free"
  /\ cache_mutex' = "writer"
  /\ wr' = [NoWriter EXCEPT !.pc = "del_cache", !.lcid = lcid]
  /\ UNCHANGED <<pdcp_array, valid_lcids_cached, pdcp_call, rrc_nr, rd, vars,
                 pairVars, polarVars>>

\* Mutant of DelBearerCache: the lcid stays in the cache, so that the entry
\* leaves the map first.
DelBearerCache_keeps_lcid ==
  /\ wr.pc = "del_cache"
  /\ cache_mutex' = "free"
  /\ wr' = [wr EXCEPT !.pc = "del_map"]
  /\ UNCHANGED <<pdcp_array, valid_lcids_cached, pdcp_call, rrc_nr, rd, vars,
                 pairVars, polarVars>>

\* del_bearer: valid_lcids_cached.erase(lcid) and the end of the block.
DelBearerCache ==
  /\ wr.pc = "del_cache"
  /\ valid_lcids_cached' = valid_lcids_cached \ {wr.lcid}
  /\ cache_mutex' = "free"
  /\ wr' = [wr EXCEPT !.pc = "del_map"]
  /\ UNCHANGED <<pdcp_array, pdcp_call, rrc_nr, rd, vars, pairVars, polarVars>>

\* del_bearer: if (valid_lcid(lcid)) pdcp_array.erase(lcid).
DelBearerMap ==
  /\ wr.pc = "del_map"
  /\ pdcp_array' = IF valid_lcid(pdcp_array, wr.lcid)
                     THEN MapErase(pdcp_array, wr.lcid) ELSE pdcp_array
  /\ wr' = NoWriter
  /\ UNCHANGED <<valid_lcids_cached, pdcp_call, rrc_nr, cache_mutex, rd, vars,
                 pairVars, polarVars>>

\* change_lcid: the guard valid_lcid(old_lcid) && not valid_lcid(new_lcid).
ChangeLcidCheck(old_lcid, new_lcid) ==
  /\ wr.pc = "idle" /\ pdcp_call.outcome = "returned"
  /\ wr' = IF valid_lcid(pdcp_array, old_lcid)
              /\ ~valid_lcid(pdcp_array, new_lcid)
             THEN [NoWriter EXCEPT !.pc = "chg_lock", !.lcid = old_lcid,
                                   !.new_lcid = new_lcid]
             ELSE NoWriter
  /\ UNCHANGED <<pdcp_array, valid_lcids_cached, pdcp_call, rrc_nr,
                 cache_mutex, rd, vars, pairVars, polarVars>>

\* change_lcid: the lock_guard, held to the end of the block.
ChangeLcidLock ==
  /\ wr.pc = "chg_lock"
  /\ cache_mutex = "free"
  /\ cache_mutex' = "writer"
  /\ wr' = [wr EXCEPT !.pc = "chg_move"]
  /\ UNCHANGED <<pdcp_array, valid_lcids_cached, pdcp_call, rrc_nr, rd, vars,
                 pairVars, polarVars>>

\* change_lcid: it = find(old_lcid); pdcp_entity = std::move(it->second).
ChangeLcidMove ==
  /\ wr.pc = "chg_move"
  /\ wr' = [wr EXCEPT !.pc = "chg_insert", !.entity = pdcp_array[wr.lcid]]
  /\ pdcp_array' = [pdcp_array EXCEPT ![wr.lcid] = NullEntity]
  /\ UNCHANGED <<valid_lcids_cached, pdcp_call, rrc_nr, cache_mutex, rd, vars,
                 pairVars, polarVars>>

\* change_lcid: the insertion at new_lcid; when it fails the function
\* returns, which releases the lock.
ChangeLcidInsert ==
  /\ wr.pc = "chg_insert"
  /\ IF wr.new_lcid \in DOMAIN pdcp_array
       THEN /\ wr' = NoWriter
            /\ cache_mutex' = "free"
            /\ pdcp_array' = pdcp_array
       ELSE /\ pdcp_array' = MapInsert(pdcp_array, wr.new_lcid, wr.entity)
            /\ wr' = [wr EXCEPT !.pc = "chg_erase", !.entity = NullEntity]
            /\ cache_mutex' = cache_mutex
  /\ UNCHANGED <<valid_lcids_cached, pdcp_call, rrc_nr, rd, vars, pairVars,
                 polarVars>>

\* change_lcid: pdcp_array.erase(it).
ChangeLcidErase ==
  /\ wr.pc = "chg_erase"
  /\ pdcp_array' = MapErase(pdcp_array, wr.lcid)
  /\ wr' = [wr EXCEPT !.pc = "chg_cache"]
  /\ UNCHANGED <<valid_lcids_cached, pdcp_call, rrc_nr, cache_mutex, rd, vars,
                 pairVars, polarVars>>

\* change_lcid: the two updates of the cache and the end of the block.
ChangeLcidCache ==
  /\ wr.pc = "chg_cache"
  /\ valid_lcids_cached' = (valid_lcids_cached \ {wr.lcid}) \cup {wr.new_lcid}
  /\ cache_mutex' = "free"
  /\ wr' = NoWriter
  /\ UNCHANGED <<pdcp_array, pdcp_call, rrc_nr, rd, vars, pairVars, polarVars>>

\* reset: the lock_guard of its first block.
ResetLock ==
  /\ wr.pc = "idle" /\ pdcp_call.outcome = "returned"
  /\ cache_mutex = "free"
  /\ cache_mutex' = "writer"
  /\ wr' = [NoWriter EXCEPT !.pc = "rst_cache"]
  /\ UNCHANGED <<pdcp_array, valid_lcids_cached, pdcp_call, rrc_nr, rd, vars,
                 pairVars, polarVars>>

\* reset: valid_lcids_cached.clear() and the end of the block.
ResetCache ==
  /\ wr.pc = "rst_cache"
  /\ valid_lcids_cached' = {}
  /\ cache_mutex' = "free"
  /\ wr' = [wr EXCEPT !.pc = "rst_map"]
  /\ UNCHANGED <<pdcp_array, pdcp_call, rrc_nr, rd, vars, pairVars, polarVars>>

\* reset: pdcp_array.clear().
ResetMap ==
  /\ wr.pc = "rst_map"
  /\ pdcp_array' = EmptyMap
  /\ wr' = NoWriter
  /\ UNCHANGED <<valid_lcids_cached, pdcp_call, rrc_nr, cache_mutex, rd, vars,
                 pairVars, polarVars>>

\* is_lcid_enabled: the lock_guard.
IsLcidEnabledLock(lcid) ==
  /\ rd.pc = "idle" /\ pdcp_call.outcome = "returned"
  /\ cache_mutex = "free"
  /\ cache_mutex' = "reader"
  /\ rd' = [NoReader EXCEPT !.pc = "read", !.lcid = lcid]
  /\ UNCHANGED <<pdcp_array, valid_lcids_cached, pdcp_call, rrc_nr, wr, vars,
                 pairVars, polarVars>>

\* is_lcid_enabled: return valid_lcids_cached.count(lcid) > 0.
IsLcidEnabledReturn ==
  /\ rd.pc = "read"
  /\ rd' = [rd EXCEPT !.pc = "idle",
                      !.result = is_lcid_enabled(valid_lcids_cached, rd.lcid),
                      !.in_map = rd.lcid \in DOMAIN pdcp_array]
  /\ cache_mutex' = "free"
  /\ UNCHANGED <<pdcp_array, valid_lcids_cached, pdcp_call, rrc_nr, wr, vars,
                 pairVars, polarVars>>

NextPdcpThreads ==
  \/ \E lcid \in Lcids, rat \in Rats, cfgOk \in BOOLEAN, ub \in UbOutcomes :
       AddBearerBegin(lcid, rat, cfgOk, ub)
  \/ AddBearerInsert
  \/ AddBearerLock
  \/ AddBearerCache
  \/ \E lcid \in Lcids : DelBearerLock(lcid)
  \/ DelBearerCache
  \/ DelBearerMap
  \/ \E old_lcid \in Lcids, new_lcid \in Lcids :
       ChangeLcidCheck(old_lcid, new_lcid)
  \/ ChangeLcidLock
  \/ ChangeLcidMove
  \/ ChangeLcidInsert
  \/ ChangeLcidErase
  \/ ChangeLcidCache
  \/ ResetLock
  \/ ResetCache
  \/ ResetMap
  \/ \E lcid \in Lcids : IsLcidEnabledLock(lcid)
  \/ IsLcidEnabledReturn

SpecPdcpThreads ==
  InitPdcpThreads /\ [][NextPdcpThreads]_<<vars, pairVars, polarVars, pdcpVars>>

\* C21: with one thread calling is_lcid_enabled while another runs
\* add_bearer, del_bearer, change_lcid or reset, whenever the other thread
\* does not hold cache_mutex the cached lcid set is a subset of the keys of
\* the bearer map, and is_lcid_enabled returns true only for an lcid that
\* was a key of the map when the cache was read.
C21_CacheWithinMap ==
  /\ cache_mutex # "writer" =>
       \A lcid \in valid_lcids_cached : lcid \in DOMAIN pdcp_array
  /\ rd.result => rd.in_map

\* is_lcid_enabled has returned true for an lcid while add_bearer for
\* another lcid is between its insertion into the map and its insertion
\* into the cache.
C21_Witness ==
  /\ rd.pc = "idle" /\ rd.result /\ rd.lcid = 0
  /\ wr.pc = "add_lock" /\ wr.lcid = 10
  /\ DOMAIN pdcp_array = {0, 10}
  /\ valid_lcids_cached = {0}

\* C22: add_bearer never uses a missing entity: for every cfg.rat and every
\* lcid, a call of add_bearer returns, and the entry it leaves at that lcid,
\* if any, holds an entity.
C22_AddBearerUsesEntity ==
  pdcp_call.op = "add_bearer" =>
    /\ pdcp_call.outcome = "returned"
    /\ pdcp_call.lcid \in DOMAIN pdcp_array =>
         pdcp_array[pdcp_call.lcid].live

\* C23: for all 8-bit inputs x and y (-128 included)
\* srslte_vec_function_f_ccc writes z = sign(x) * sign(y) * min(|x|, |y|),
\* so that |z| <= min(|x|, |y|) with no wrap-around, in each of the first
\* len elements; srslte_vec_function_f_sss does the same for all 16-bit
\* inputs (-32768 included).
C23_MinSum ==
  vec.op \in {"f_ccc", "f_sss"} =>
    \A i \in 1..vec.len :
      LET min == IF abs(vec.x[i]) <= abs(vec.y[i]) THEN abs(vec.x[i])
                 ELSE abs(vec.y[i])
      IN  /\ vec.z[i] = sgn(vec.x[i]) * sgn(vec.y[i]) * min
          /\ abs(vec.z[i]) <= min

==========================================================================
